---- MODULE Spec2Model ----
(***************************************************************************)
(* Joint Account Analyser: the statement ingestion, de-duplication,        *)
(* categorisation and mapping-document pipeline, and the wizard state      *)
(* machine (appReducer, processFiles and the screens) that drives it.      *)
(*                                                                         *)
(* Text is a sequence of one-character strings, so that trimming, case     *)
(* folding, substring tests and concatenation are computed as the code     *)
(* computes them.  Amounts are integers in cents.  A Date is the ordinal   *)
(* of its local calendar day (every Date the program builds is a local     *)
(* midnight).                                                              *)
(***************************************************************************)
EXTENDS Integers, Sequences, FiniteSets, TLC

(***************************************************************************)
(* Bounds of the model.                                                    *)
(***************************************************************************)
\* longest transaction list drawn as input of the de-duplication functions
MaxTx == 3
\* most files in a batch drawn as input of parseMultipleCSVs
MaxFiles == 3
\* longest mapping list drawn as input of applyCategories / mappingsToJSON
MaxMaps == 2
\* most processFiles calls made
MaxRuns == 2

(***************************************************************************)
(* Text primitives (String.prototype).                                     *)
(***************************************************************************)
LowerLetters ==
  << "a","b","c","d","e","f","g","h","i","j","k","l","m",
     "n","o","p","q","r","s","t","u","v","w","x","y","z" >>

UpperLetters ==
  << "A","B","C","D","E","F","G","H","I","J","K","L","M",
     "N","O","P","Q","R","S","T","U","V","W","X","Y","Z" >>

Digits == << "0","1","2","3","4","5","6","7","8","9" >>

IsUpper(c) == \E i \in 1..26 : UpperLetters[i] = c

IsLower(c) == \E i \in 1..26 : LowerLetters[i] = c

IsDigit(c) == \E i \in 1..10 : Digits[i] = c

DigitVal(c) == (CHOOSE i \in 1..10 : Digits[i] = c) - 1

IsSpace(c) == c \in {" ", "\t", "\n", "\r"}

ToLowerChar(c) ==
  IF IsUpper(c) THEN LowerLetters[CHOOSE i \in 1..26 : UpperLetters[i] = c] ELSE c

ToUpperChar(c) ==
  IF IsLower(c) THEN UpperLetters[CHOOSE i \in 1..26 : LowerLetters[i] = c] ELSE c

\* s.toLowerCase()
toLowerCase(s) == [i \in 1..Len(s) |-> ToLowerChar(s[i])]

\* s.toUpperCase()
toUpperCase(s) == [i \in 1..Len(s) |-> ToUpperChar(s[i])]

\* v bound to a name in F: F(v)
With(v, F(_)) == F(v)

\* the least and the greatest member of a non-empty set of numbers
Min(S) == CHOOSE i \in S : \A j \in S : i <= j

Max(S) == CHOOSE i \in S : \A j \in S : j <= i

\* s.trim()
trim(s) ==
  With({i \in 1..Len(s) : ~IsSpace(s[i])}, LAMBDA keep :
    IF keep = {} THEN <<>> ELSE SubSeq(s, Min(keep), Max(keep)))

\* s.includes(p)
includes(s, p) ==
  \E i \in 0..(Len(s) - Len(p)) : SubSeq(s, i + 1, i + Len(p)) = p

\* s.endsWith(suffix)
endsWith(s, suffix) ==
  /\ Len(suffix) <= Len(s)
  /\ SubSeq(s, Len(s) - Len(suffix) + 1, Len(s)) = suffix

\* s.split(sep) for a one-character separator: the pieces between separators
RECURSIVE split(_, _)
split(s, sep) ==
  With({i \in 1..Len(s) : s[i] = sep}, LAMBDA hits :
    IF hits = {} THEN << s >>
    ELSE With(Min(hits), LAMBDA k :
           << SubSeq(s, 1, k - 1) >> \o split(SubSeq(s, k + 1, Len(s)), sep)))

\* the values of a sequence
Range(s) == {s[i] : i \in 1..Len(s)}

\* Array.prototype.filter with the predicate given as a set of kept indices
RECURSIVE KeepIndices(_, _, _)
KeepIndices(s, keep, i) ==
  IF i > Len(s) THEN <<>>
  ELSE (IF i \in keep THEN << s[i] >> ELSE <<>>) \o KeepIndices(s, keep, i + 1)

\* Array.prototype.flatMap / push(...xs) over a sequence of sequences
RECURSIVE Flatten(_)
Flatten(ss) == IF ss = <<>> THEN <<>> ELSE Head(ss) \o Flatten(Tail(ss))

\* a value that a function may or may not produce (undefined / thrown error)
Ok(v) == [ok |-> TRUE, val |-> v]

Fail(msg) == [ok |-> FALSE, val |-> msg]

\* an optional field of a record: absent, or present with a value
None == <<>>

Some(v) == << v >>

(***************************************************************************)
(* Locale parsers (types/transaction.ts).                                  *)
(***************************************************************************)
\* value.replace(/\./g, '')
RemoveDots(s) == KeepIndices(s, {i \in 1..Len(s) : s[i] # "."}, 1)

\* value.replace(',', '.'): only the first comma is replaced
ReplaceFirstComma(s) ==
  With({i \in 1..Len(s) : s[i] = ","}, LAMBDA hits :
    IF hits = {} THEN s ELSE [s EXCEPT ![Min(hits)] = "."])

\* the value of a run of decimal digits
RECURSIVE DigitsValue(_)
DigitsValue(ds) ==
  IF ds = <<>> THEN 0 ELSE 10 * DigitsValue(SubSeq(ds, 1, Len(ds) - 1)) + DigitVal(ds[Len(ds)])

\* the longest prefix of s made of decimal digits
DigitPrefix(s) ==
  With({i \in 1..Len(s) : ~IsDigit(s[i])}, LAMBDA stops :
    IF stops = {} THEN s ELSE SubSeq(s, 1, Min(stops) - 1))

\* the leading whitespace of s removed (parseFloat and Number skip it)
TrimStart(s) ==
  With({i \in 1..Len(s) : ~IsSpace(s[i])}, LAMBDA keep :
    IF keep = {} THEN <<>> ELSE SubSeq(s, Min(keep), Len(s)))

\* whether the text begins with a minus sign
IsNegative(t) == t # <<>> /\ t[1] = "-"

\* the text without its leading sign, if it has one
Unsigned(t) == IF t # <<>> /\ t[1] \in {"-", "+"} THEN Tail(t) ELSE t

\* the fraction digits that follow the integer digits ip at the head of body
FractionDigits(body, ip) ==
  IF Len(body) > Len(ip) /\ body[Len(ip) + 1] = "."
  THEN DigitPrefix(SubSeq(body, Len(ip) + 2, Len(body)))
  ELSE <<>>

\* n, negated when neg
Signed(neg, n) == IF neg THEN 0 - n ELSE n

\* parseFloat(s): the number written by the longest prefix of s that is a
\* decimal literal (sign, digits, '.', digits), in cents; NaN (a failure) when
\* no prefix is one.  Whatever follows the prefix is ignored.  Exponents and
\* "Infinity" are outside the alphabet of the inputs drawn here; fraction
\* digits beyond the second are below one cent and are dropped.
parseFloat(s) ==
  With(TrimStart(s), LAMBDA t :
    With(Unsigned(t), LAMBDA body :
      With(DigitPrefix(body), LAMBDA ip :
        With(FractionDigits(body, ip), LAMBDA fp :
          IF ip = <<>> /\ fp = <<>> THEN Fail("NaN")
          ELSE Ok(Signed(IsNegative(t),
                         100 * DigitsValue(ip)
                           + DigitsValue(SubSeq(fp \o << "0", "0" >>, 1, 2))))))))

\* parseEuropeanDecimal(value): "1.234,56" -> 1234.56, throws on NaN
parseEuropeanDecimal(value) ==
  With(parseFloat(ReplaceFirstComma(RemoveDots(value))), LAMBDA parsed :
    IF ~parsed.ok THEN Fail("Invalid number format") ELSE parsed)

\* Number(s) for the parts of a date: an optionally signed run of digits,
\* surrounding whitespace ignored, the empty string being 0; anything else
\* is NaN (a failure)
Number(s) ==
  With(trim(s), LAMBDA t :
    With(Unsigned(t), LAMBDA body :
      IF t = <<>> THEN Ok(0)
      ELSE IF body = <<>> \/ \E i \in 1..Len(body) : ~IsDigit(body[i]) THEN Fail("NaN")
      ELSE Ok(Signed(IsNegative(t), DigitsValue(body)))))

IsLeapYear(y) == (y % 4 = 0 /\ y % 100 # 0) \/ y % 400 = 0

\* the lengths of the months of year y
MonthLengths(y) ==
  << 31, IF IsLeapYear(y) THEN 29 ELSE 28, 31, 30, 31, 30, 31, 31, 30, 31, 30, 31 >>

\* days of the months of year y that precede its month index m0 (0-based)
DaysBeforeMonth(y, m0) ==
  << 0, 31, 59, 90, 120, 151, 181, 212, 243, 273, 304, 334 >>[m0 + 1]
    + (IF m0 >= 2 /\ IsLeapYear(y) THEN 1 ELSE 0)

\* days of the years that precede year y, counted from year 0
DaysBeforeYear(y) ==
  365 * y + ((y + 3) \div 4) - ((y + 99) \div 100) + ((y + 399) \div 400)

\* new Date(year, monthIndex, day): the ordinal of the local calendar day.
\* Months outside 0..11 carry into the year and days outside the month carry
\* into the neighbouring months, as Date does; years 0..99 mean 1900..1999.
NewDate(year, monthIndex, day) ==
  With(12 * (IF year >= 0 /\ year <= 99 THEN 1900 + year ELSE year) + monthIndex,
       LAMBDA ym :
         DaysBeforeYear(ym \div 12) + DaysBeforeMonth(ym \div 12, ym % 12) + (day - 1))

\* the Date of three numbers, any of which may be NaN
DateOfParts(year, month, day) ==
  IF ~year.ok \/ ~month.ok \/ ~day.ok THEN Fail("Invalid date")
  ELSE Ok(NewDate(year.val, month.val - 1, day.val))

\* parseNordeaDate(value): "YYYY/M/D"
parseNordeaDate(value) ==
  With(split(value, "/"), LAMBDA parts :
    IF Len(parts) # 3 THEN Fail("Invalid date format")
    ELSE DateOfParts(Number(parts[1]), Number(parts[2]), Number(parts[3])))

(***************************************************************************)
(* CSV ingestion (parsers/nordea.ts).  The text of a file is given by what *)
(* its readers make of it.  Papa.parse: whether the text is blank, the     *)
(* errors it reports, the header fields and the data rows (column ->       *)
(* text).  JSON.parse: the value denoted, or the SyntaxError thrown.       *)
(***************************************************************************)
EXPECTED_COLUMNS ==
  << "Booking date", "Amount", "Sender", "Recipient", "Name", "Title",
     "Message", "Reference number", "Balance", "Currency" >>

\* the rows numbered from 1
TransactionIdFromOne(filename, i) ==
  filename \o << "-" >> \o (IF i + 1 < 10 THEN << Digits[i + 2] >>
                            ELSE << Digits[((i + 1) \div 10) + 1], Digits[((i + 1) % 10) + 1] >>)

\* `${filename}-${i}`
TransactionId(filename, i) ==
  filename \o << "-" >> \o (IF i < 10 THEN << Digits[i + 1] >>
                            ELSE << Digits[(i \div 10) + 1], Digits[(i % 10) + 1] >>)

\* RawNordeaRowSchema.safeParse(row).success: every column is a string
RawNordeaRowValid(row) == \A c \in Range(EXPECTED_COLUMNS) : c \in DOMAIN row

\* new CSVParseError(message, filename, row)
CSVParseError(message, filename, row) ==
  Fail([message |-> message, filename |-> filename, row |-> row])

\* the try block of the row loop: the Transaction of a row, or the error
RowTransaction(row, filename, i, date, amount) ==
  IF ~date.ok \/ ~amount.ok
  THEN CSVParseError("Failed to parse row", filename, Some(i + 1))
  ELSE Ok(Some([ id              |-> TransactionId(filename, i),
                 date            |-> date.val,
                 amount          |-> amount.val,
                 title           |-> trim(row["Title"]),
                 name            |-> trim(row["Name"]),
                 referenceNumber |-> row["Reference number"],
                 message         |-> trim(row["Message"]),
                 sourceFile      |-> filename,
                 category        |-> None,
                 contributor     |-> None,
                 isDuplicate     |-> None ]))

\* the body of the row loop of parseNordeaCSV for row index i:
\* a failure, a skip (None) or a transaction (Some)
ParseRow(row, filename, i) ==
  IF ~RawNordeaRowValid(row) THEN CSVParseError("Invalid row data", filename, Some(i + 1))
  ELSE IF trim(row["Booking date"]) = <<>> THEN Ok(None)
  ELSE RowTransaction(row, filename, i, parseNordeaDate(row["Booking date"]),
                      parseEuropeanDecimal(row["Amount"]))

\* a loop body's outcome followed by that of the rest of the loop: the first
\* error thrown, or the pushed elements in order
ThenAppend(r, rest) ==
  IF ~r.ok THEN r ELSE IF ~rest.ok THEN rest ELSE Ok(r.val \o rest.val)

\* rows i.. of the row loop: the first failure, or the transactions pushed
RECURSIVE ParseRows(_, _, _)
ParseRows(data, filename, i) ==
  IF i >= Len(data) THEN Ok(<<>>)
  ELSE ThenAppend(ParseRow(data[i + 1], filename, i), ParseRows(data, filename, i + 1))

\* the columns looked at before the number of data rows
parseNordeaCSVColumnsFirst(content, filename) ==
  IF content.blank THEN CSVParseError("CSV file is empty", filename, None)
  ELSE IF Len(content.errors) > 0
  THEN CSVParseError("Parse error", filename, content.errors[1].row)
  ELSE IF \E c \in Range(EXPECTED_COLUMNS) : c \notin content.fields
  THEN CSVParseError("Missing required columns", filename, None)
  ELSE IF Len(content.data) = 0
  THEN CSVParseError("CSV file contains no data rows", filename, None)
  ELSE ParseRows(content.data, filename, 0)

\* parseNordeaCSV(csvString, filename)
parseNordeaCSV(content, filename) ==
  IF content.blank THEN CSVParseError("CSV file is empty", filename, None)
  ELSE IF Len(content.errors) > 0
  THEN CSVParseError("Parse error", filename, content.errors[1].row)
  ELSE IF Len(content.data) = 0
  THEN CSVParseError("CSV file contains no data rows", filename, None)
  ELSE IF \E c \in Range(EXPECTED_COLUMNS) : c \notin content.fields
  THEN CSVParseError("Missing required columns", filename, None)
  ELSE ParseRows(content.data, filename, 0)

\* Array.prototype.sort with a numeric comparator (a, b) => key(a) - key(b),
\* the keys given beside the elements: ascending, and stable (ES2019)
SortByKey(s, k) ==
  With(SubSeq(k, 1, Len(k)), LAMBDA key :
    With(SubSeq([i \in 1..Len(s) |->
                   1 + Cardinality({j \in 1..Len(s) :
                         key[j] < key[i] \/ (key[j] = key[i] /\ j < i)})],
                1, Len(s)),
         LAMBDA place :
      [p \in 1..Len(s) |-> s[CHOOSE i \in 1..Len(s) : place[i] = p]]))

\* the list left as it was pushed
KeepPushOrder(s) == s

\* xs.sort((a, b) => a.date.getTime() - b.date.getTime())
SortByDate(s) == SortByKey(s, [i \in 1..Len(s) |-> s[i].date])

\* the file loop of parseMultipleCSVs: the first failure, or the concatenation
RECURSIVE ParseFiles(_)
ParseFiles(files) ==
  IF files = <<>> THEN Ok(<<>>)
  ELSE ThenAppend(parseNordeaCSV(Head(files).content, Head(files).filename),
                  ParseFiles(Tail(files)))

\* parseMultipleCSVs(files)
parseMultipleCSVs(files) ==
  With(ParseFiles(files), LAMBDA all :
    IF ~all.ok THEN all ELSE Ok(SortByDate(all.val)))

(***************************************************************************)
(* De-duplication (processors/deduplication.ts).                           *)
(***************************************************************************)
\* The zones a browser may run in, by what they do to a local midnight:
\* "west" (UTC or behind it: the same UTC day), "east" (ahead of UTC: the
\* previous UTC day) and "dst" (on UTC in winter, one hour ahead in summer,
\* as Europe/London: the previous UTC day for the days after the change).
TimeZones == {"west", "east", "dst"}

\* the day summer time begins in the "dst" zone: 31 March 2024
DstStart == NewDate(2024, 2, 31)

\* t.date.toISOString().split('T')[0]: the UTC calendar day of the Date,
\* a text without '|' (one token here)
ISODate(date, zone) ==
  << ToString(CASE zone = "west" -> date
                [] zone = "east" -> date - 1
                [] zone = "dst"  -> IF date > DstStart THEN date - 1 ELSE date) >>

\* `${t.amount}`: the digits of the number, a text without '|' (one token)
NumberToString(n) == << ToString(n) >>

\* getTransactionKey(t)
getTransactionKey(t, zone) ==
  ISODate(t.date, zone) \o << "|" >> \o NumberToString(t.amount) \o << "|" >>
    \o t.title \o << "|" >> \o t.referenceNumber

\* the indices of a list, ascending
Indices(s) == [i \in 1..Len(s) |-> i]

\* the entries of the Map built by the first loop of findDuplicates, in
\* insertion order: one list per key, the key's transactions in input order
KeyGroups(transactions, zone) ==
  With([i \in 1..Len(transactions) |-> getTransactionKey(transactions[i], zone)],
       LAMBDA key :
    With(KeepIndices(Indices(transactions),
                     {i \in 1..Len(key) : \A j \in 1..(i - 1) : key[j] # key[i]}, 1),
         LAMBDA order :
      [g \in 1..Len(order) |->
         KeepIndices(transactions, {j \in 1..Len(key) : key[j] = key[order[g]]}, 1)]))

\* the DuplicateGroup pushed for a retained group
DuplicateGroup(group) ==
  [ transactions    |-> group,
    date            |-> group[1].date,
    amount          |-> group[1].amount,
    title           |-> group[1].title,
    referenceNumber |-> group[1].referenceNumber ]

\* the groups findDuplicates retains of the Map's entries, as DuplicateGroups
RetainedGroups(groups) ==
  With(KeepIndices(groups,
                   {g \in 1..Len(groups) :
                      /\ Len(groups[g]) >= 2
                      /\ Cardinality({t.sourceFile : t \in Range(groups[g])}) >= 2}, 1),
       LAMBDA kept : [g \in 1..Len(kept) |-> DuplicateGroup(kept[g])])

\* findDuplicates(transactions)
findDuplicates(transactions, zone) ==
  SortByDate(RetainedGroups(KeyGroups(transactions, zone)))

\* getAllDuplicateTransactions(groups)
getAllDuplicateTransactions(groups) ==
  Flatten([g \in 1..Len(groups) |-> groups[g].transactions])

\* getTransactionsToRemove(groups)
getTransactionsToRemove(groups) ==
  Flatten([g \in 1..Len(groups) |-> Tail(groups[g].transactions)])

\* removeDuplicates(transactions, toRemove)
removeDuplicates(transactions, toRemove) ==
  With({t.id : t \in Range(toRemove)}, LAMBDA removeIds :
    KeepIndices(transactions,
                {i \in 1..Len(transactions) : transactions[i].id \notin removeIds}, 1))

\* markDuplicates(transactions, duplicateGroups)
markDuplicates(transactions, duplicateGroups) ==
  With({t.id : t \in Range(getAllDuplicateTransactions(duplicateGroups))},
       LAMBDA duplicateIds :
    [i \in 1..Len(transactions) |->
       [transactions[i] EXCEPT !.isDuplicate = Some(transactions[i].id \in duplicateIds)]])

\* deduplicateTransactions(transactions)
deduplicateTransactions(transactions, zone) ==
  With(findDuplicates(transactions, zone), LAMBDA duplicateGroups :
    With(getTransactionsToRemove(duplicateGroups), LAMBDA toRemove :
      [ transactions    |-> removeDuplicates(transactions, toRemove),
        duplicateGroups |-> duplicateGroups,
        removedCount    |-> Len(toRemove) ]))

(***************************************************************************)
(* Categorisation (processors/categories).                                 *)
(***************************************************************************)
TxtExact == << "e","x","a","c","t" >>

TxtContains == << "c","o","n","t","a","i","n","s" >>

\* the sum of a list of numbers
RECURSIVE SumOf(_)
SumOf(ns) == IF ns = <<>> THEN 0 ELSE Head(ns) + SumOf(Tail(ns))

\* the truthiness of an optional string: defined and not empty
Truthy(opt) == opt # None /\ opt[1] # <<>>

\* Math.abs(n)
Abs(n) == IF n < 0 THEN 0 - n ELSE n

\* the members of a list that satisfy P, in order (Array.prototype.filter)
Filter(seq, P(_)) == KeepIndices(seq, {i \in 1..Len(seq) : P(seq[i])}, 1)

\* the sum of f over a list (Array.prototype.reduce with +)
SumOver(seq, f(_)) == SumOf([i \in 1..Len(seq) |-> f(seq[i])])

\* the keys of a Map filled by set(k(x), ...) for x along seq, in insertion
\* order: the distinct values of k in order of first occurrence
MapKeys(seq, k(_)) ==
  With([i \in 1..Len(seq) |-> k(seq[i])], LAMBDA key :
    KeepIndices(key, {i \in 1..Len(key) : \A j \in 1..(i - 1) : key[j] # key[i]}, 1))

\* the uncategorized expenses
UncategorizedExpenses(transactions) ==
  Filter(transactions, LAMBDA t : t.amount < 0 /\ ~Truthy(t.category))

\* the TitleSuggestion of a title over the expenses
TitleSuggestion(title, expenses) ==
  [ title            |-> title,
    totalAmount      |-> SumOver(expenses, LAMBDA t :
                           IF trim(t.title) = title THEN Abs(t.amount) ELSE 0),
    transactionCount |-> Len(Filter(expenses, LAMBDA t : trim(t.title) = title)) ]

\* suggestions.sort((a, b) => b.totalAmount - a.totalAmount)
SortByTotalAmountDesc(s) == SortByKey(s, [i \in 1..Len(s) |-> 0 - s[i].totalAmount])

\* suggestCategories(transactions)
suggestCategories(transactions) ==
  With(UncategorizedExpenses(transactions), LAMBDA expenses :
    With(MapKeys(Filter(expenses, LAMBDA t : trim(t.title) # <<>>),
                 LAMBDA t : trim(t.title)),
         LAMBDA titles :
      SortByTotalAmountDesc([i \in 1..Len(titles) |-> TitleSuggestion(titles[i], expenses)])))

\* titleMatchesMapping(title, mapping)
titleMatchesMapping(title, mapping) ==
  IF mapping.matchType = TxtExact
  THEN toLowerCase(title) = toLowerCase(mapping.pattern)
  ELSE includes(toLowerCase(title), toLowerCase(mapping.pattern))

\* the first mapping of the list that the title matches, if any
FirstMatching(title, mappings) ==
  With({i \in 1..Len(mappings) : titleMatchesMapping(title, mappings[i])}, LAMBDA hits :
    IF hits = {} THEN None ELSE Some(mappings[Min(hits)]))

\* the two loops of applyCategories over one uncategorized expense
CategoryFor(title, exactMappings, containsMappings) ==
  With(FirstMatching(title, exactMappings), LAMBDA e :
    IF e # None THEN e ELSE FirstMatching(title, containsMappings))

\* a record categorised whether or not it has a category
CategorizeAgain(t, exactMappings, containsMappings) ==
  IF t.amount >= 0 THEN t
  ELSE With(CategoryFor(trim(t.title), exactMappings, containsMappings), LAMBDA m :
         IF m = None THEN t ELSE [t EXCEPT !.category = Some(m[1].category)])

\* the callback applyCategories maps over the transactions
CategorizeOne(t, exactMappings, containsMappings) ==
  IF t.amount >= 0 THEN t
  ELSE IF Truthy(t.category) THEN t
  ELSE With(CategoryFor(trim(t.title), exactMappings, containsMappings), LAMBDA m :
         IF m = None THEN t ELSE [t EXCEPT !.category = Some(m[1].category)])

\* applyCategories(transactions, mappings)
applyCategoriesTiered(transactions, exactMappings, containsMappings) ==
  [i \in 1..Len(transactions) |->
     CategorizeOne(transactions[i], exactMappings, containsMappings)]

\* one pass over the rules in input order, whatever their kind
applyCategoriesInOrder(transactions, mappings) ==
  applyCategoriesTiered(transactions, mappings, <<>>)

applyCategories(transactions, mappings) ==
  applyCategoriesTiered(transactions,
                        Filter(mappings, LAMBDA m : m.matchType = TxtExact),
                        Filter(mappings, LAMBDA m : m.matchType = TxtContains))

\* createMapping(pattern, category, matchType)
createMapping(pattern, category, matchType) ==
  [pattern |-> pattern, category |-> category, matchType |-> matchType]

\* a / b rounded to a whole number of hundredths: Math.round((a / b) * 100)
\* for a >= 0 and b > 0, halves rounded up
RoundPercent(a, b) == (200 * a + b) \div (2 * b)

\* getCategorizationProgress(transactions)
getCategorizationProgress(transactions) ==
  With(Filter(transactions, LAMBDA t : t.amount < 0), LAMBDA expenses :
  With(Filter(expenses, LAMBDA t : Truthy(t.category)), LAMBDA categorized :
  With(Filter(expenses, LAMBDA t : ~Truthy(t.category)), LAMBDA uncategorized :
  With(SumOver(categorized, LAMBDA t : Abs(t.amount)), LAMBDA categorizedAmount :
  With(SumOver(uncategorized, LAMBDA t : Abs(t.amount)), LAMBDA uncategorizedAmount :
    [ totalExpenses       |-> Len(expenses),
      categorized         |-> Len(categorized),
      uncategorized       |-> Len(uncategorized),
      categorizedAmount   |-> categorizedAmount,
      uncategorizedAmount |-> uncategorizedAmount,
      percentComplete     |-> IF categorizedAmount + uncategorizedAmount > 0
                              THEN RoundPercent(categorizedAmount,
                                                categorizedAmount + uncategorizedAmount)
                              ELSE 100 ])))))

(***************************************************************************)
(* Title patterns (processors/patterns).                                   *)
(***************************************************************************)
STOP_WORDS ==
  { <<"a">>, <<"a","n">>, <<"t","h","e">>, <<"o","f">>, <<"t","o">>,
    <<"i","n">>, <<"f","o","r">>, <<"o","n">>, <<"a","t">>, <<"b","y">>,
    <<"f","r","o","m">>, <<"w","i","t","h">>, <<"o","y">>, <<"a","b">>,
    <<"l","t","d">>, <<"i","n","c">>, <<"c","o">>, <<"f","i">>,
    <<"h","e","l","s","i","n","k","i">>, <<"e","s","p","o","o">>,
    <<"v","a","n","t","a","a">>, <<"0","0">>, <<"0","1">>, <<"0","2">>,
    <<"0","3">>, <<"0","4">>, <<"0","5">>, <<"0","6">>, <<"0","7">>,
    <<"0","8">>, <<"0","9">>, <<"1","0">>, <<"1","1">>, <<"1","2">>,
    <<"k","o","r","t","t","i","o","s","t","o">>,
    <<"t","i","l","i","s","i","i","r","t","o">>, <<"m","a","k","s","u">> }

MIN_WORD_LENGTH == 3

\* the characters /[^a-zA-Z0-9\s]/ leaves in place (titles are ASCII here)
IsWordChar(c) == IsLower(c) \/ IsUpper(c) \/ IsDigit(c) \/ IsSpace(c)

\* s.replace(/[^a-z...A-Z...0-9\s]/g, ' ')
BlankPunctuation(s) == [i \in 1..Len(s) |-> IF IsWordChar(s[i]) THEN s[i] ELSE " "]

\* s.split(/\s+/) without its empty pieces: the maximal runs of non-space
SplitWords(s) ==
  With({i \in 1..Len(s) : ~IsSpace(s[i]) /\ (i = 1 \/ IsSpace(s[i - 1]))}, LAMBDA starts :
    [k \in 1..Cardinality(starts) |->
       With(CHOOSE i \in starts : Cardinality({j \in starts : j < i}) = k - 1, LAMBDA lo :
         SubSeq(s, lo, Min({i \in lo..Len(s) : i = Len(s) \/ IsSpace(s[i + 1])})))])

\* the words extractTitlePatterns takes from a title
TitleWords(title) ==
  Filter(SplitWords(BlankPunctuation(toLowerCase(title))),
         LAMBDA w : Len(w) >= MIN_WORD_LENGTH /\ w \notin STOP_WORDS)

\* the TitlePattern of a word over the expenses
TitlePattern(word, expenses) ==
  With(Filter(expenses, LAMBDA t : word \in Range(TitleWords(t.title))), LAMBDA hits :
    [ pattern       |-> word,
      matchCount    |-> Len(hits),
      totalAmount   |-> SumOver(hits, LAMBDA t : Abs(t.amount)),
      exampleTitles |-> With(MapKeys(hits, LAMBDA t : t.title), LAMBDA titles :
                          SubSeq(titles, 1, IF Len(titles) < 3 THEN Len(titles) ELSE 3)) ])

\* extractTitlePatterns(transactions)
extractTitlePatterns(transactions) ==
  With(UncategorizedExpenses(transactions), LAMBDA expenses :
    With(MapKeys(Flatten([i \in 1..Len(expenses) |-> TitleWords(expenses[i].title)]),
                 LAMBDA w : w),
         LAMBDA words :
      With(SortByTotalAmountDesc(
             Filter([i \in 1..Len(words) |-> TitlePattern(words[i], expenses)],
                    LAMBDA p : p.matchCount >= 2)),
           LAMBDA patterns :
        SubSeq(patterns, 1, IF Len(patterns) < 30 THEN Len(patterns) ELSE 30))))

\* calculateUncategorizedTotals(transactions)
calculateUncategorizedTotals(transactions) ==
  With(UncategorizedExpenses(transactions), LAMBDA uncategorized :
    [ total        |-> SumOver(uncategorized, LAMBDA t : Abs(t.amount)),
      count        |-> Len(uncategorized),
      transactions |-> uncategorized ])

(***************************************************************************)
(* Contributors (processors/contributors).                                 *)
(***************************************************************************)
\* title.toLowerCase().match(/[a-z]+/): the first run of letters, or ''
FirstLetters(s) ==
  With({i \in 1..Len(s) : IsLower(s[i])}, LAMBDA hits :
    IF hits = {} THEN <<>>
    ELSE With(Min(hits), LAMBDA lo :
           SubSeq(s, lo, Min({i \in lo..Len(s) : i = Len(s) \/ ~IsLower(s[i + 1])}))))

\* extractNameFromTitle(title)
extractNameFromTitle(title) == FirstLetters(toLowerCase(title))

\* normalizeName(name)
normalizeName(name) ==
  IF name = <<>> THEN <<>>
  ELSE << ToUpperChar(name[1]) >> \o toLowerCase(Tail(name))

\* t.name.trim() || t.title.trim()
RawName(t) == IF trim(t.name) # <<>> THEN trim(t.name) ELSE trim(t.title)

\* the name extracted from an income transaction
ExtractedName(t) == extractNameFromTitle(RawName(t))

\* the Contributor of an extracted name over the income transactions
Contributor(name, incomeTransactions) ==
  [ name             |-> normalizeName(name),
    total            |-> SumOver(incomeTransactions, LAMBDA t :
                           IF ExtractedName(t) = name THEN t.amount ELSE 0),
    transactionCount |-> Len(Filter(incomeTransactions, LAMBDA t : ExtractedName(t) = name)) ]

\* the contributors left in Map order
SortByNothing(s) == s

\* contributors.sort((a, b) => b.total - a.total)
SortByTotalDesc(s) == SortByKey(s, [i \in 1..Len(s) |-> 0 - s[i].total])

\* findTopContributors(transactions, count)
findTopContributors(transactions, count) ==
  With(Filter(transactions, LAMBDA t : t.amount > 0), LAMBDA incomeTransactions :
    With(MapKeys(Filter(incomeTransactions, LAMBDA t : ExtractedName(t) # <<>>),
                 ExtractedName),
         LAMBDA names :
      With(SortByTotalDesc([i \in 1..Len(names) |->
                              Contributor(names[i], incomeTransactions)]),
           LAMBDA contributors :
        SubSeq(contributors, 1, IF count < Len(contributors) THEN count
                                ELSE Len(contributors)))))

\* findAllContributors(transactions): slice(0, Infinity) keeps every entry
findAllContributors(transactions) ==
  findTopContributors(transactions, Len(transactions))

TxtOther == << "O","t","h","e","r" >>

\* the callback tagContributions maps over the transactions
TagOne(t, normalizedSelected) ==
  IF t.amount <= 0 THEN t
  ELSE With(ExtractedName(t), LAMBDA extractedName :
         IF extractedName # <<>> /\ toLowerCase(extractedName) \in normalizedSelected
         THEN [t EXCEPT !.contributor = Some(normalizeName(extractedName))]
         ELSE [t EXCEPT !.contributor = Some(TxtOther)])

\* the selected names matched as written, without case folding
tagContributionsAsWritten(transactions, selectedNames) ==
  [i \in 1..Len(transactions) |-> TagOne(transactions[i], Range(selectedNames))]

\* tagContributions(transactions, selectedNames)
tagContributions(transactions, selectedNames) ==
  [i \in 1..Len(transactions) |->
     TagOne(transactions[i], {toLowerCase(n) : n \in Range(selectedNames)})]

(***************************************************************************)
(* JSON.  The text of a JSON document is modelled by the value it denotes: *)
(* a number, a string, an array, or an object as its list of members in    *)
(* order.  JSON.parse of text that is not JSON throws.                     *)
(***************************************************************************)
JNum(n) == [t |-> "num", v |-> n]

JStr(str) == [t |-> "str", v |-> str]

JArr(items) == [t |-> "arr", v |-> items]

JObj(members) == [t |-> "obj", v |-> members]

\* JSON.stringify(value): the text of the document; read as CSV, its lines
\* do not have the field count of its first line
JSONstringify(j) ==
  [ blank |-> FALSE, errors |-> << [row |-> Some(1)] >>, fields |-> {}, data |-> <<>>,
    json |-> Ok(j) ]

\* JSON.parse(text)
JSONparse(text) == text.json

\* a member of an object
Member(key, value) == [k |-> key, v |-> value]

\* obj[key] of a parsed value: the last member of that name, if any
Get(j, key) ==
  IF j.t # "obj" THEN None
  ELSE With({i \in 1..Len(j.v) : j.v[i].k = key}, LAMBDA hits :
         IF hits = {} THEN None ELSE Some(j.v[Max(hits)].v))

\* Object.entries(value)
Entries(j) ==
  CASE j.t = "obj" -> j.v
    [] j.t = "arr" -> [i \in 1..Len(j.v) |-> Member(NumberToString(i - 1), j.v[i])]
    [] OTHER       -> <<>>

\* the truthiness of a parsed value
TruthyJSON(j) ==
  CASE j.t = "num" -> j.v # 0
    [] j.t = "str" -> j.v # <<>>
    [] OTHER       -> TRUE

KeyVersion == << "v","e","r","s","i","o","n" >>

KeyContributors == << "c","o","n","t","r","i","b","u","t","o","r","s" >>

KeyCategories == << "c","a","t","e","g","o","r","i","e","s" >>

KeyCreatedAt == << "c","r","e","a","t","e","d","A","t" >>

KeyLastUsed == << "l","a","s","t","U","s","e","d" >>

KeyPattern == << "p","a","t","t","e","r","n" >>

KeyCategory == << "c","a","t","e","g","o","r","y" >>

KeyMatchType == << "m","a","t","c","h","T","y","p","e" >>

\* new Date().toISOString() at the moments the model draws
Timestamps == { << "2","0","2","4","-","0","5","-","0","1","T",
                   "1","0",":","0","0",":","0","0",".","0","0","0","Z" >> }

\* the object JSON.stringify writes for a CategoryMapping
MappingToJSON(m) ==
  JObj(<< Member(KeyPattern, JStr(m.pattern)),
          Member(KeyCategory, JStr(m.category)),
          Member(KeyMatchType, JStr(m.matchType)) >>)

\* mappingsToJSON(mappings, contributors), now being new Date().toISOString()
mappingsToJSON(mappings, contributors, now) ==
  JSONstringify(JObj(<<
    Member(KeyVersion, JNum(1)),
    Member(KeyContributors, JArr([i \in 1..Len(contributors) |-> JStr(contributors[i])])),
    Member(KeyCategories, JArr([i \in 1..Len(mappings) |-> MappingToJSON(mappings[i])])),
    Member(KeyCreatedAt, JStr(now)),
    Member(KeyLastUsed, JStr(now)) >>))

\* the member `key` of j exists and satisfies P
FieldIs(j, key, P(_)) ==
  With(Get(j, key), LAMBDA f : f # None /\ P(f[1]))

\* z.string().min(1)
IsNonEmptyString(j) == j.t = "str" /\ Len(j.v) >= 1

\* CategoryMappingSchema
CategoryMappingSchema(j) ==
  /\ j.t = "obj"
  /\ FieldIs(j, KeyPattern, IsNonEmptyString)
  /\ FieldIs(j, KeyCategory, IsNonEmptyString)
  /\ FieldIs(j, KeyMatchType, LAMBDA f : f.t = "str" /\ f.v \in {TxtExact, TxtContains})

\* z.string().datetime(): YYYY-MM-DDTHH:MM:SS, an optional fraction, Z
IsDatetime(j) ==
  /\ j.t = "str"
  /\ Len(j.v) >= 20
  /\ \A i \in 1..19 :
       CASE i \in {5, 8}   -> j.v[i] = "-"
         [] i = 11         -> j.v[i] = "T"
         [] i \in {14, 17} -> j.v[i] = ":"
         [] OTHER          -> IsDigit(j.v[i])
  /\ j.v[Len(j.v)] = "Z"
  /\ Len(j.v) > 20 =>
       /\ j.v[20] = "."
       /\ Len(j.v) >= 22
       /\ \A i \in 21..(Len(j.v) - 1) : IsDigit(j.v[i])

\* GroupingsFileSchema: whether the parsed value is a GroupingsFile
GroupingsFileSchema(j) ==
  /\ j.t = "obj"
  /\ FieldIs(j, KeyVersion, LAMBDA f : f.t = "num" /\ f.v = 1)
  /\ FieldIs(j, KeyContributors, LAMBDA f :
       f.t = "arr" /\ \A i \in 1..Len(f.v) : f.v[i].t = "str")
  /\ FieldIs(j, KeyCategories, LAMBDA f :
       f.t = "arr" /\ \A i \in 1..Len(f.v) : CategoryMappingSchema(f.v[i]))
  /\ FieldIs(j, KeyCreatedAt, IsDatetime)
  /\ FieldIs(j, KeyLastUsed, IsDatetime)

\* the CategoryMapping a validated object denotes
MappingFromJSON(j) ==
  createMapping(Get(j, KeyPattern)[1].v, Get(j, KeyCategory)[1].v, Get(j, KeyMatchType)[1].v)

\* GroupingsFileSchema.safeParse(data)
safeParse(j) ==
  IF ~GroupingsFileSchema(j) THEN [success |-> FALSE, data |-> <<>>]
  ELSE [ success |-> TRUE,
         data    |-> [ contributors |->
                         With(Get(j, KeyContributors)[1].v, LAMBDA a :
                           [i \in 1..Len(a) |-> a[i].v]),
                       categories   |->
                         With(Get(j, KeyCategories)[1].v, LAMBDA a :
                           [i \in 1..Len(a) |-> MappingFromJSON(a[i])]) ] ]

KeyExact == << "e","x","a","c","t" >>

KeyContains == << "c","o","n","t","a","i","n","s" >>

\* whether `for (const pattern of value)` can run: arrays and strings
Iterable(j) == j.t \in {"arr", "str"}

\* the elements `for ... of` visits
Elements(j) == IF j.t = "arr" THEN [i \in 1..Len(j.v) |-> j.v[i].v]
               ELSE [i \in 1..Len(j.v) |-> << j.v[i] >>]

\* one `if (rules.X) for (const pattern of rules.X) push(...)` of
\* parseGroupingsFile, X being exact or contains
RuleMappings(category, rules, key, matchType) ==
  With(Get(rules, key), LAMBDA list :
    IF list = None THEN Ok(<<>>)
    ELSE IF ~TruthyJSON(list[1]) THEN Ok(<<>>)
    ELSE IF ~Iterable(list[1]) THEN Fail("TypeError")
    ELSE Ok([i \in 1..Len(list[1].v) |->
               createMapping(Elements(list[1])[i], category, matchType)]))

\* the outer loop of parseGroupingsFile from entry i on
RECURSIVE EntryMappings(_, _)
EntryMappings(entries, i) ==
  IF i > Len(entries) THEN Ok(<<>>)
  ELSE ThenAppend(ThenAppend(RuleMappings(entries[i].k, entries[i].v, KeyExact, TxtExact),
                             RuleMappings(entries[i].k, entries[i].v, KeyContains, TxtContains)),
                  EntryMappings(entries, i + 1))

\* parseGroupingsFile(json)
parseGroupingsFile(json) ==
  With(JSONparse(json), LAMBDA groupings :
    IF ~groupings.ok THEN groupings ELSE EntryMappings(Entries(groupings.val), 1))

(***************************************************************************)
(* Calculations (calculations/contributions, spending, cashflow).  A       *)
(* month is the text "YYYY-MM" that formatMonth makes.  A quotient is kept *)
(* as the pair of its numerator and denominator.                           *)
(***************************************************************************)
\* date.getFullYear(), local time
getFullYear(date) ==
  CHOOSE y \in (date \div 366)..(date \div 365 + 1) :
    DaysBeforeYear(y) <= date /\ date < DaysBeforeYear(y + 1)

\* date.getMonth(), local time, 0-based
getMonth(date) ==
  With(getFullYear(date), LAMBDA y :
    CHOOSE m0 \in 0..11 :
      /\ DaysBeforeYear(y) + DaysBeforeMonth(y, m0) <= date
      /\ date < DaysBeforeYear(y) + DaysBeforeMonth(y, m0) + MonthLengths(y)[m0 + 1])

\* String(n) for n >= 0: its decimal digits
RECURSIVE DecimalDigits(_)
DecimalDigits(n) ==
  IF n < 10 THEN << Digits[n + 1] >>
  ELSE DecimalDigits(n \div 10) \o << Digits[(n % 10) + 1] >>

\* s.padStart(2, '0')
padStart2(s) == IF Len(s) < 2 THEN << "0" >> \o s ELSE s

\* formatMonth(date)
formatMonth(date) ==
  DecimalDigits(getFullYear(date)) \o << "-" >> \o padStart2(DecimalDigits(getMonth(date) + 1))

\* getAllMonthsInRange(start, end): current runs over the first days of the
\* months from start's month while current <= endMonth
RECURSIVE MonthsFrom(_, _)
\* the loop left before the month of the end is pushed
MonthsBefore(current, endMonth) ==
  IF current < endMonth
  THEN << formatMonth(current) >>
         \o MonthsFrom(NewDate(getFullYear(current), getMonth(current) + 1, 1), endMonth)
  ELSE <<>>

MonthsFrom(current, endMonth) ==
  IF current <= endMonth
  THEN << formatMonth(current) >>
         \o MonthsFrom(NewDate(getFullYear(current), getMonth(current) + 1, 1), endMonth)
  ELSE <<>>

getAllMonthsInRange(start, end) ==
  MonthsFrom(NewDate(getFullYear(start), getMonth(start), 1),
             NewDate(getFullYear(end), getMonth(end), 1))

\* a / b
Quotient(a, b) == [num |-> a, den |-> b]

\* the text of an optional text, '' when unset
OrEmpty(opt) == IF opt = None THEN <<>> ELSE opt[1]

\* the elements of a list, each computed once
Computed(s) == SubSeq(s, 1, Len(s))

\* formatMonth(t.date) for each transaction of a list
MonthsOf(transactions) ==
  Computed([i \in 1..Len(transactions) |-> formatMonth(transactions[i].date)])

\* the sum of the amounts of the transactions at the positions in S
AmountAt(transactions, S) ==
  SumOf([i \in 1..Len(transactions) |-> IF i \in S THEN transactions[i].amount ELSE 0])

\* calculateMonthlyContributions(transactions, contributors, allMonths)
calculateMonthlyContributions(transactions, contributors, allMonths) ==
  With(Filter(transactions, LAMBDA t :
         /\ t.amount > 0
         /\ Truthy(t.contributor)
         /\ toLowerCase(OrEmpty(t.contributor)) \in {toLowerCase(c) : c \in Range(contributors)}),
       LAMBDA incomeTransactions :
    With(MonthsOf(incomeTransactions), LAMBDA monthOf :
      Flatten([m \in 1..Len(allMonths) |->
        [c \in 1..Len(contributors) |->
           [ month       |-> allMonths[m],
             contributor |-> contributors[c],
             amount      |-> AmountAt(incomeTransactions,
                               {i \in 1..Len(incomeTransactions) :
                                  monthOf[i] \o << "|" >> \o OrEmpty(incomeTransactions[i].contributor)
                                    = allMonths[m] \o << "|" >> \o contributors[c]}) ]]])))

\* the summary of one contributor
ContributorSummary(transactions, contributor, monthCount) ==
  With(SumOver(transactions, LAMBDA t :
         IF t.amount > 0 /\ t.contributor # None
              /\ toLowerCase(OrEmpty(t.contributor)) = toLowerCase(contributor)
         THEN t.amount ELSE 0),
       LAMBDA total :
    [ name           |-> contributor,
      total          |-> total,
      monthlyAverage |-> IF monthCount > 0 THEN Quotient(total, monthCount)
                         ELSE Quotient(0, 1) ])

\* the summaries left in the order of the contributors given
calculateContributorSummariesUnsorted(transactions, contributors, monthCount) ==
  [c \in 1..Len(contributors) |->
     ContributorSummary(transactions, contributors[c], monthCount)]

\* calculateContributorSummaries(transactions, contributors, monthCount)
calculateContributorSummaries(transactions, contributors, monthCount) ==
  SortByTotalDesc([c \in 1..Len(contributors) |->
                     ContributorSummary(transactions, contributors[c], monthCount)])

\* calculateEqualisation(summaries)
calculateEqualisation(summaries) ==
  IF Len(summaries) < 2
  THEN [ difference         |-> 0,
         equalisationAmount |-> Quotient(0, 1),
         higherContributor  |-> IF Len(summaries) > 0 THEN summaries[1].name ELSE <<>>,
         lowerContributor   |-> <<>> ]
  ELSE [ difference         |-> Abs(summaries[1].total - summaries[2].total),
         equalisationAmount |-> Quotient(Abs(summaries[1].total - summaries[2].total), 2),
         higherContributor  |-> IF summaries[1].total >= summaries[2].total
                                THEN summaries[1].name ELSE summaries[2].name,
         lowerContributor   |-> IF summaries[1].total >= summaries[2].total
                                THEN summaries[2].name ELSE summaries[1].name ]

\* what the Map of calculateMonthlyCashFlow holds for a month
MonthlyData(transactions, monthOf, month) ==
  [ income    |-> AmountAt(transactions,
                    {i \in 1..Len(transactions) :
                       monthOf[i] = month /\ transactions[i].amount > 0}),
    outgoings |-> 0 - AmountAt(transactions,
                    {i \in 1..Len(transactions) :
                       monthOf[i] = month /\ ~(transactions[i].amount > 0)}) ]

\* the balance not carried from month to month
MonthBalance(data, i) == data[i].income - data[i].outgoings



\* cumulativeBalance after the i-th month of the list
CumulativeBalance(data, i) ==
  SumOf([j \in 1..i |-> data[j].income - data[j].outgoings])

\* calculateMonthlyCashFlow(transactions, allMonths)
calculateMonthlyCashFlow(transactions, allMonths) ==
  With(MonthsOf(transactions), LAMBDA monthOf :
    With(Computed([m \in 1..Len(allMonths) |->
                     MonthlyData(transactions, monthOf, allMonths[m])]),
         LAMBDA data :
      [m \in 1..Len(allMonths) |->
         [ month             |-> allMonths[m],
           income            |-> data[m].income,
           outgoings         |-> data[m].outgoings,
           net               |-> data[m].income - data[m].outgoings,
           cumulativeBalance |-> CumulativeBalance(data, m) ]]))

\* calculateTotals(transactions)
calculateTotals(transactions) ==
  With(SumOver(transactions, LAMBDA t : IF t.amount > 0 THEN t.amount ELSE 0),
       LAMBDA totalIncome :
    With(SumOver(transactions, LAMBDA t : IF t.amount > 0 THEN 0 ELSE Abs(t.amount)),
         LAMBDA totalOutgoings :
      [ totalIncome    |-> totalIncome,
        totalOutgoings |-> totalOutgoings,
        netBalance     |-> totalIncome - totalOutgoings ]))

TxtUncategorized == << "U","n","c","a","t","e","g","o","r","i","z","e","d" >>

\* t.category || 'Uncategorized'
CategoryOrUncategorized(t) ==
  IF Truthy(t.category) THEN t.category[1] ELSE TxtUncategorized

\* the place of a character of a month text in collation order
MonthCharOrder(c) ==
  CHOOSE k \in 1..11 : (<< "-" >> \o Digits)[k] = c

\* a.localeCompare(b) < 0 for month texts
RECURSIVE MonthBefore(_, _)
MonthBefore(a, b) ==
  IF b = <<>> THEN FALSE
  ELSE IF a = <<>> THEN TRUE
  ELSE IF a[1] # b[1] THEN MonthCharOrder(a[1]) < MonthCharOrder(b[1])
  ELSE MonthBefore(Tail(a), Tail(b))

\* results.sort(by month, then by amount descending): stable
SortByMonthThenAmountDesc(s) ==
  With(Computed([i \in 1..Len(s) |->
                   1 + Cardinality({j \in 1..Len(s) :
                         \/ MonthBefore(s[j].month, s[i].month)
                         \/ s[j].month = s[i].month /\ s[j].amount > s[i].amount
                         \/ s[j].month = s[i].month /\ s[j].amount = s[i].amount /\ j < i})]),
       LAMBDA place :
    [p \in 1..Len(s) |-> s[CHOOSE i \in 1..Len(s) : place[i] = p]])

\* calculateMonthlySpending(transactions, allMonths)
calculateMonthlySpending(transactions, allMonths) ==
  With(Filter(transactions, LAMBDA t : t.amount < 0), LAMBDA expenses :
    With(MonthsOf(expenses), LAMBDA monthOf :
      With(MapKeys(expenses, CategoryOrUncategorized), LAMBDA categories :
        SortByMonthThenAmountDesc(
          Flatten([m \in 1..Len(allMonths) |->
            [c \in 1..Len(categories) |->
               With({i \in 1..Len(expenses) :
                       monthOf[i] \o << "|" >> \o CategoryOrUncategorized(expenses[i])
                         = allMonths[m] \o << "|" >> \o categories[c]},
                    LAMBDA entry :
                 [ month    |-> allMonths[m],
                   category |-> categories[c],
                   amount   |-> 0 - AmountAt(expenses, entry),
                   count    |-> Cardinality(entry) ])]])))))

\* [...new Set(months)].sort() for month texts
SortedMonths(months) ==
  With(MapKeys(months, LAMBDA m : m), LAMBDA distinct :
    [p \in 1..Len(distinct) |->
       distinct[CHOOSE i \in 1..Len(distinct) :
         p = 1 + Cardinality({j \in 1..Len(distinct) : MonthBefore(distinct[j], distinct[i])})]])

\* monthlyContributions.find(c => c.month === month && c.contributor ===
\* contributor)?.amount || 0
MonthAmount(monthlyContributions, month, contributor) ==
  With({i \in 1..Len(monthlyContributions) :
          /\ monthlyContributions[i].month = month
          /\ monthlyContributions[i].contributor = contributor},
       LAMBDA hits : IF hits = {} THEN 0 ELSE monthlyContributions[Min(hits)].amount)

\* the loops of calculateCumulativeContributions from step k on, one step
\* for each month and each contributor in turn; runningTotals is the Map
\* from contributor to running total
RECURSIVE CumulativeFrom(_, _, _, _, _)
CumulativeFrom(monthlyContributions, months, contributors, k, runningTotals) ==
  IF k > Len(months) * Len(contributors) THEN <<>>
  ELSE With(months[((k - 1) \div Len(contributors)) + 1], LAMBDA month :
       With(contributors[((k - 1) % Len(contributors)) + 1], LAMBDA contributor :
       With(runningTotals[contributor]
              + MonthAmount(monthlyContributions, month, contributor),
            LAMBDA newTotal :
         << [ month |-> month, contributor |-> contributor, cumulative |-> newTotal ] >>
         \o CumulativeFrom(monthlyContributions, months, contributors, k + 1,
                           [runningTotals EXCEPT ![contributor] = newTotal]))))

\* calculateCumulativeContributions(monthlyContributions, contributors)
calculateCumulativeContributions(monthlyContributions, contributors) ==
  CumulativeFrom(monthlyContributions,
                 SortedMonths([i \in 1..Len(monthlyContributions) |->
                                 monthlyContributions[i].month]),
                 contributors, 1,
                 [c \in Range(contributors) |-> 0])

\* the categoryTotals Map of handleFinish: for each category, in the order
\* the categories first appear, the sum of its monthly amounts
CategoryTotals(monthlySpending) ==
  With(MapKeys(monthlySpending, LAMBDA item : item.category), LAMBDA categories :
    [c \in 1..Len(categories) |->
       [ category |-> categories[c],
         total    |-> SumOver(monthlySpending, LAMBDA item :
                        IF item.category = categories[c] THEN item.amount ELSE 0) ]])

\* getDateRange(transactions), for a list that is not empty
getDateRange(transactions) ==
  [ start |-> Min({t.date : t \in Range(transactions)}),
    end   |-> Max({t.date : t \in Range(transactions)}) ]

\* calculateDataQuality(transactions, duplicatesRemoved), without the gaps
\* in weeks and months; for an empty list the range is the current day,
\* which is not kept here
calculateDataQuality(transactions, duplicatesRemoved) ==
  [ dateRange           |-> IF transactions = <<>> THEN None
                            ELSE Some(getDateRange(transactions)),
    totalFiles          |-> Cardinality({t.sourceFile : t \in Range(transactions)}),
    totalTransactions   |-> Len(transactions),
    incomeTransactions  |-> Len(Filter(transactions, LAMBDA t : t.amount > 0)),
    expenseTransactions |-> Len(Filter(transactions, LAMBDA t : t.amount < 0)),
    duplicatesFound     |-> duplicatesRemoved,
    duplicatesRemoved   |-> duplicatesRemoved ]

\* the reportData of handleFinish, for the months given
ReportFor(transactions, selectedContributors, duplicatesRemoved, allMonths) ==
  With(calculateMonthlyContributions(transactions, selectedContributors, allMonths),
       LAMBDA monthlyContributions :
  With(calculateContributorSummaries(transactions, selectedContributors, Len(allMonths)),
       LAMBDA contributorSummaries :
  With(calculateEqualisation(contributorSummaries), LAMBDA equalisation :
  With(calculateMonthlySpending(transactions, allMonths), LAMBDA monthlySpending :
  With(calculateUncategorizedTotals(transactions), LAMBDA uncategorized :
  With(calculateTotals(transactions), LAMBDA totals :
    [ dataQuality   |-> calculateDataQuality(transactions, duplicatesRemoved),
      contributions |-> [ contributors       |-> contributorSummaries,
                          monthly            |-> monthlyContributions,
                          cumulative         |-> calculateCumulativeContributions(
                                                   monthlyContributions, selectedContributors),
                          totalDifference    |-> equalisation.difference,
                          equalisationAmount |-> equalisation.equalisationAmount ],
      spending      |-> [ byCategory         |-> CategoryTotals(monthlySpending),
                          monthly            |-> monthlySpending,
                          uncategorized      |-> uncategorized.transactions,
                          uncategorizedTotal |-> uncategorized.total,
                          uncategorizedCount |-> uncategorized.count ],
      cashFlow      |-> [ monthly        |-> calculateMonthlyCashFlow(transactions, allMonths),
                          totalIncome    |-> totals.totalIncome,
                          totalOutgoings |-> totals.totalOutgoings,
                          netBalance     |-> totals.netBalance ] ]))))))

\* new Date() in handleFinish: the day the report is made
Today == NewDate(2024, 4, 1)

(***************************************************************************)
(* Numbers as the engine holds them.  An amount is an IEEE 754 double, and *)
(* every + and - of the calculations rounds its result to the nearest      *)
(* double, ties to even.  Here a double is its sign and its magnitude in   *)
(* units of 2^-56, the magnitude in two limbs of 28 bits; this holds       *)
(* exactly every double of magnitude from 1/16 to below 4, their sums and  *)
(* their differences.  The sums above, in hundredths, are what these       *)
(* would be without rounding.                                              *)
(***************************************************************************)
Limb == 2^28

Double(neg, hi, lo) == [neg |-> neg /\ (hi > 0 \/ lo > 0), hi |-> hi, lo |-> lo]

\* the distance between neighbouring doubles at a magnitude, in units
Ulp(hi) ==
  IF hi < 2^25 THEN 1
  ELSE IF hi < 2^26 THEN 2
  ELSE IF hi < 2^27 THEN 4
  ELSE IF hi < 2^28 THEN 8
  ELSE IF hi < 2^29 THEN 16
  ELSE 32

\* the double nearest to a magnitude of (hi, lo) units and a fraction of a
\* unit, of which half tells whether it is at least 1/2 and rest whether
\* there is more: round to nearest, ties to even
RoundToDouble(neg, hi, lo, half, rest) ==
  With(Ulp(hi), LAMBDA u :
  With(lo % u, LAMBDA r :
  With(IF u = 1
       THEN half /\ (rest \/ lo % 2 = 1)
       ELSE \/ 2 * r > u
            \/ 2 * r = u /\ (half \/ rest \/ ((lo - r) \div u) % 2 = 1),
       LAMBDA up :
  With(IF up THEN lo - r + u ELSE lo - r, LAMBDA rounded :
    IF rounded = Limb THEN Double(neg, hi + 1, 0) ELSE Double(neg, hi, rounded)))))

\* the first n binary digits of r / d after the point, for r < d, and the
\* remainder left after them
RECURSIVE BinaryDigits(_, _, _)
BinaryDigits(r, d, n) ==
  IF n = 0 THEN [digits |-> <<>>, left |-> r]
  ELSE With(BinaryDigits((2 * r) % d, d, n - 1), LAMBDA more :
         [digits |-> << (2 * r) \div d >> \o more.digits, left |-> more.left])

\* the number written by binary digits, the first the most significant
RECURSIVE BinaryValue(_)
BinaryValue(digits) ==
  IF digits = <<>> THEN 0
  ELSE 2 * BinaryValue(SubSeq(digits, 1, Len(digits) - 1)) + digits[Len(digits)]

\* parseFloat of a decimal text that denotes a number of hundredths: the
\* double nearest to hundredths / 100
DoubleOfHundredths(hundredths) ==
  With(BinaryDigits(Abs(hundredths) % 100, 100, 28), LAMBDA high :
  With(BinaryDigits(high.left, 100, 29), LAMBDA low :
    RoundToDouble(hundredths < 0,
                  (Abs(hundredths) \div 100) * Limb + BinaryValue(high.digits),
                  BinaryValue(SubSeq(low.digits, 1, 28)),
                  low.digits[29] = 1,
                  low.left > 0)))

\* |a| < |b|
MagnitudeLess(a, b) == a.hi < b.hi \/ (a.hi = b.hi /\ a.lo < b.lo)

\* a + b
DoubleAdd(a, b) ==
  IF a.neg = b.neg
  THEN RoundToDouble(a.neg, a.hi + b.hi + (a.lo + b.lo) \div Limb, (a.lo + b.lo) % Limb,
                     FALSE, FALSE)
  ELSE IF MagnitudeLess(a, b)
  THEN RoundToDouble(b.neg, b.hi - a.hi - (IF b.lo < a.lo THEN 1 ELSE 0),
                     (b.lo - a.lo + Limb) % Limb, FALSE, FALSE)
  ELSE RoundToDouble(a.neg, a.hi - b.hi - (IF a.lo < b.lo THEN 1 ELSE 0),
                     (a.lo - b.lo + Limb) % Limb, FALSE, FALSE)

\* a - b
DoubleSubtract(a, b) == DoubleAdd(a, Double(~b.neg, b.hi, b.lo))

\* Math.abs(a)
DoubleAbs(a) == Double(FALSE, a.hi, a.lo)

DoubleZero == Double(FALSE, 0, 0)

\* acc += x for each x of xs in turn
RECURSIVE Accumulate(_, _)
Accumulate(acc, xs) ==
  IF xs = <<>> THEN acc ELSE Accumulate(DoubleAdd(acc, Head(xs)), Tail(xs))

\* the amounts of the transactions of a list, as doubles
DoubleAmounts(transactions) ==
  [i \in 1..Len(transactions) |-> DoubleOfHundredths(transactions[i].amount)]

DoubleAbsAmounts(transactions) ==
  [i \in 1..Len(transactions) |-> DoubleAbs(DoubleOfHundredths(transactions[i].amount))]

\* calculateTotals(transactions), in doubles
calculateTotalsIEEE(transactions) ==
  With(Accumulate(DoubleZero,
                  DoubleAmounts(Filter(transactions, LAMBDA t : t.amount > 0))),
       LAMBDA totalIncome :
    With(Accumulate(DoubleZero,
                    DoubleAbsAmounts(Filter(transactions, LAMBDA t : ~(t.amount > 0)))),
         LAMBDA totalOutgoings :
      [ totalIncome    |-> totalIncome,
        totalOutgoings |-> totalOutgoings,
        netBalance     |-> DoubleSubtract(totalIncome, totalOutgoings) ]))

\* the income and the outgoings calculateMonthlyCashFlow accumulates for a
\* month, and their difference
MonthlyDataIEEE(transactions, month) ==
  With(Filter(transactions, LAMBDA t : formatMonth(t.date) = month), LAMBDA dated :
    With(Accumulate(DoubleZero, DoubleAmounts(Filter(dated, LAMBDA t : t.amount > 0))),
         LAMBDA income :
      With(Accumulate(DoubleZero,
                      DoubleAbsAmounts(Filter(dated, LAMBDA t : ~(t.amount > 0)))),
           LAMBDA outgoings :
        [ income |-> income, outgoings |-> outgoings,
          net |-> DoubleSubtract(income, outgoings) ])))

\* calculateMonthlyCashFlow(transactions, allMonths), in doubles
calculateMonthlyCashFlowIEEE(transactions, allMonths) ==
  With(Computed([m \in 1..Len(allMonths) |-> MonthlyDataIEEE(transactions, allMonths[m])]),
       LAMBDA data :
    [m \in 1..Len(allMonths) |->
       [ month             |-> allMonths[m],
         income            |-> data[m].income,
         outgoings         |-> data[m].outgoings,
         net               |-> data[m].net,
         cumulativeBalance |-> Accumulate(DoubleZero, [k \in 1..m |-> data[k].net]) ]])

\* the amount calculateMonthlySpending accumulates for a month and a category
MonthlySpendingIEEE(transactions, month, category) ==
  Accumulate(DoubleZero,
             DoubleAbsAmounts(Filter(transactions, LAMBDA t :
               /\ t.amount < 0
               /\ formatMonth(t.date) = month
               /\ CategoryOrUncategorized(t) = category)))

\* categoryTotals of handleFinish, in doubles.  calculateMonthlySpending
\* sorts its entries by month first, so the entries of a category are added
\* month by month
CategoryTotalsIEEE(transactions, allMonths) ==
  With(MapKeys(Filter(transactions, LAMBDA t : t.amount < 0), CategoryOrUncategorized),
       LAMBDA categories :
    [c \in 1..Len(categories) |->
       [ category |-> categories[c],
         total    |-> Accumulate(DoubleZero,
                        [m \in 1..Len(allMonths) |->
                           MonthlySpendingIEEE(transactions, allMonths[m], categories[c])]) ]])

\* the sums of the reportData of handleFinish, in doubles
ReportSumsIEEE(transactions) ==
  With(getAllMonthsInRange(
         IF transactions = <<>> THEN Today ELSE transactions[1].date,
         IF transactions = <<>> THEN Today ELSE transactions[Len(transactions)].date),
       LAMBDA allMonths :
    With(calculateTotalsIEEE(transactions), LAMBDA totals :
      [ spending |-> [ byCategory |-> CategoryTotalsIEEE(transactions, allMonths) ],
        cashFlow |-> [ monthly        |-> calculateMonthlyCashFlowIEEE(transactions, allMonths),
                       totalIncome    |-> totals.totalIncome,
                       totalOutgoings |-> totals.totalOutgoings,
                       netBalance     |-> totals.netBalance ] ]))

(***************************************************************************)
(* The application (context/AppContext.tsx, context/types.ts).             *)
(***************************************************************************)
\* initialState
initialState ==
  [ step                 |-> "landing",
    rawTransactions      |-> <<>>,
    duplicateGroups      |-> <<>>,
    duplicatesRemoved    |-> 0,
    transactions         |-> <<>>,
    selectedContributors |-> <<>>,
    categoryMappings     |-> <<>>,
    reportData           |-> None,
    isLoading            |-> FALSE,
    error                |-> None ]

\* appReducer(state, action)
appReducer(st, action) ==
  CASE action.type = "SET_LOADING" ->
         [st EXCEPT !.isLoading = action.isLoading]
    [] action.type = "SET_ERROR" ->
         [st EXCEPT !.error = action.error, !.isLoading = FALSE]
    [] action.type = "FILES_LOADED" ->
         [st EXCEPT !.rawTransactions = action.transactions,
                    !.transactions = action.transactions,
                    !.isLoading = FALSE,
                    !.error = None]
    [] action.type = "GROUPINGS_LOADED" ->
         [st EXCEPT !.selectedContributors = action.contributors,
                    !.categoryMappings = action.categories]
    [] action.type = "DUPLICATES_FOUND" ->
         [st EXCEPT !.duplicateGroups = action.groups,
                    !.step = IF Len(action.groups) > 0 THEN "dedup" ELSE "contributors"]
    [] action.type = "DUPLICATES_RESOLVED" ->
         [st EXCEPT !.transactions = action.transactions,
                    !.duplicatesRemoved = action.removedCount,
                    !.step = "contributors"]
    [] action.type = "CONTRIBUTORS_SELECTED" ->
         [st EXCEPT !.selectedContributors = action.names]
    [] action.type = "TRANSACTIONS_TAGGED" ->
         [st EXCEPT !.transactions = action.transactions, !.step = "categorize"]
    [] action.type = "CATEGORY_ADDED" ->
         [st EXCEPT !.categoryMappings = Append(@, action.mapping)]
    [] action.type = "CATEGORIES_APPLIED" ->
         [st EXCEPT !.transactions = action.transactions]
    [] action.type = "REPORT_GENERATED" ->
         [st EXCEPT !.reportData = Some(action.data), !.step = "report"]
    [] action.type = "GO_TO_STEP" ->
         [st EXCEPT !.step = action.step]
    [] action.type = "RESET" -> initialState
    [] OTHER -> st

\* the state after dispatching the actions in order
RECURSIVE DispatchAll(_, _)
DispatchAll(st, actions) ==
  IF actions = <<>> THEN st
  ELSE DispatchAll(appReducer(st, Head(actions)), Tail(actions))

\* what is recorded of a dispatched action: its type, and for SET_ERROR
\* whether the error is null
ActionTag(action) ==
  IF action.type = "SET_ERROR" /\ action.error = None THEN "SET_ERROR(null)"
  ELSE action.type

(***************************************************************************)
(* processFiles (hooks/useFileUpload.ts).  A run is the activation record  *)
(* of one call: where it is suspended (pc), its locals, and the log of the *)
(* actions it has dispatched.  Each operator gives the run after the code  *)
(* up to the next await, with the actions dispatched on the way.           *)
(***************************************************************************)
TxtDotCsv == << ".","c","s","v" >>

TxtDotJson == << ".","j","s","o","n" >>

\* the last file whose name ends in .json and not in .csv, if any
GroupingsFileOf(files) ==
  With({i \in 1..Len(files) :
          ~endsWith(files[i].name, TxtDotCsv) /\ endsWith(files[i].name, TxtDotJson)},
       LAMBDA hits : IF hits = {} THEN None ELSE Some(files[Max(hits)]))

\* the run and the actions of a stretch of processFiles
Stretch(run, pc, actions) == [run |-> [run EXCEPT !.pc = pc], actions |-> actions]

\* from the call to the first await
processFilesStart(files) ==
  With([ pc             |-> "csv",
         csvFiles       |-> Filter(files, LAMBDA f : endsWith(f.name, TxtDotCsv)),
         groupingsFile  |-> GroupingsFileOf(files),
         i              |-> 1,
         allTransactions |-> <<>>,
         log            |-> <<>> ],
       LAMBDA run :
    IF run.csvFiles = <<>>
    THEN Stretch(run, "done",
                 << [type |-> "SET_LOADING", isLoading |-> TRUE],
                    [type |-> "SET_ERROR", error |-> None],
                    [type |-> "SET_ERROR",
                     error |-> Some("Please select at least one CSV file")] >>)
    ELSE Stretch(run, "csv",
                 << [type |-> "SET_LOADING", isLoading |-> TRUE],
                    [type |-> "SET_ERROR", error |-> None] >>))

\* after the loop over the CSV files: sort, FILES_LOADED, then either the
\* await of the groupings file or findDuplicates and DUPLICATES_FOUND
processFilesLoaded(run, sorted, z) ==
  IF run.groupingsFile # None
  THEN Stretch([run EXCEPT !.allTransactions = sorted], "json",
               << [type |-> "FILES_LOADED", transactions |-> sorted] >>)
  ELSE Stretch([run EXCEPT !.allTransactions = sorted], "done",
               << [type |-> "FILES_LOADED", transactions |-> sorted],
                  [type |-> "DUPLICATES_FOUND", groups |-> findDuplicates(sorted, z)] >>)

\* from the text of CSV file i to the next await: parse it, and after the
\* last file go on; a CSVParseError goes to the catch block
processFilesCsv(run, z) ==
  With(parseNordeaCSV(run.csvFiles[run.i].text, run.csvFiles[run.i].name), LAMBDA parsed :
    IF ~parsed.ok
    THEN Stretch(run, "done", << [type |-> "SET_ERROR", error |-> Some(parsed.val.message)] >>)
    ELSE IF run.i < Len(run.csvFiles)
    THEN Stretch([run EXCEPT !.allTransactions = @ \o parsed.val, !.i = @ + 1], "csv", <<>>)
    ELSE processFilesLoaded([run EXCEPT !.i = @ + 1],
                            SortByDate(run.allTransactions \o parsed.val), z))

\* from the text of the groupings file to the end
processFilesJson(run, z) ==
  With(JSONparse(run.groupingsFile[1].text), LAMBDA groupingsData :
    IF ~groupingsData.ok
    THEN Stretch(run, "done", << [type |-> "SET_ERROR", error |-> Some(groupingsData.val)] >>)
    ELSE With(safeParse(groupingsData.val), LAMBDA validated :
           Stretch(run, "done",
                   (IF validated.success
                    THEN << [ type         |-> "GROUPINGS_LOADED",
                              contributors |-> validated.data.contributors,
                              categories   |-> validated.data.categories ] >>
                    ELSE <<>>)
                   \o << [ type   |-> "DUPLICATES_FOUND",
                           groups |-> findDuplicates(run.allTransactions, z) ] >>)))

(***************************************************************************)
(* State.                                                                  *)
(***************************************************************************)
VARIABLES
  zone,      \* the time zone of the browser
  state,     \* application: the AppState held by useReducer
  runs,      \* application: the processFiles calls made, in order
  screen,    \* application: the useState values of the mounted screen
  hist,      \* application: what was imported and what was selected
  dPc,       \* de-duplication pipeline: the stage reached
  dBatch,    \* de-duplication pipeline: the batch of files given
  dTxs,      \* de-duplication pipeline: what parseMultipleCSVs returned or threw
  dGroups,   \* de-duplication pipeline: what findDuplicates returned
  dMarked,   \* de-duplication pipeline: what markDuplicates returned
  dResult,   \* de-duplication pipeline: what removeDuplicates returned
  dResult2,  \* de-duplication pipeline: the same removal applied to dResult
  cPc,       \* categorisation: the stage reached
  cTxs,      \* categorisation: the transactions given to applyCategories
  cMaps,     \* categorisation: the mappings given to applyCategories
  cOut,      \* categorisation: what applyCategories returned
  ePc,       \* mapping document: the stage reached
  eMaps,     \* mapping document: the mappings exported
  eNames,    \* mapping document: the contributors exported
  eDoc,      \* mapping document: what mappingsToJSON returned
  eParsed,   \* mapping document: what parseGroupingsFile returned or threw
  eUploaded, \* mapping document: what GroupingsFileSchema.safeParse returned
  fPc,       \* library call: the function called, once it has returned
  fArgs,     \* library call: the arguments given
  fRes       \* library call: what the function returned or threw

appVars == << state, runs, screen, hist >>

dedupVars == << dPc, dBatch, dTxs, dGroups, dMarked, dResult, dResult2 >>

catVars == << cPc, cTxs, cMaps, cOut >>

exportVars == << ePc, eMaps, eNames, eDoc, eParsed, eUploaded >>

fnVars == << fPc, fArgs, fRes >>

vars == << zone, appVars, dedupVars, catVars, exportVars, fnVars >>

\* the application before the page is opened
AppOff ==
  /\ state = initialState
  /\ runs = <<>>
  /\ screen = <<>>
  /\ hist = <<>>

\* a pipeline that is not run
DedupOff ==
  /\ dPc = "off"
  /\ dBatch = <<>>
  /\ dTxs = Fail(<<>>)
  /\ dGroups = <<>>
  /\ dMarked = <<>>
  /\ dResult = <<>>
  /\ dResult2 = <<>>

CatOff ==
  /\ cPc = "off"
  /\ cTxs = <<>>
  /\ cMaps = <<>>
  /\ cOut = <<>>

ExportOff ==
  /\ ePc = "off"
  /\ eMaps = <<>>
  /\ eNames = <<>>
  /\ eDoc = <<>>
  /\ eParsed = Fail(<<>>)
  /\ eUploaded = <<>>

\* no library call made on its own
FnOff ==
  /\ fPc = "off"
  /\ fArgs = <<>>
  /\ fRes = <<>>

(***************************************************************************)
(* Inputs of the de-duplication pipeline: statement rows that differ from  *)
(* the first in one field each, and a pair whose title and reference       *)
(* number contain the key's separator.                                     *)
(***************************************************************************)
TxtMar31 == << "2","0","2","4","/","3","/","3","1" >>

TxtApr1 == << "2","0","2","4","/","4","/","1" >>

\* a data row as Papa.parse returns it (header: true)
Row(date, amount, name, title, ref) ==
  [c \in Range(EXPECTED_COLUMNS) |->
     CASE c = "Booking date"     -> date
       [] c = "Amount"           -> amount
       [] c = "Name"             -> name
       [] c = "Title"            -> title
       [] c = "Reference number" -> ref
       [] OTHER                  -> <<>>]

\* the content of a well-formed statement with the given data rows
Statement(rows) ==
  [ blank |-> FALSE, errors |-> <<>>, fields |-> Range(EXPECTED_COLUMNS), data |-> rows,
    json |-> Fail("SyntaxError") ]

DedupRows ==
  { Row(TxtMar31, << "-","5" >>, <<>>, << "a" >>, << "c" >>),
    Row(TxtApr1,  << "-","5" >>, <<>>, << "a" >>, << "c" >>),
    Row(TxtMar31, << "7" >>,     <<>>, << "a" >>, << "c" >>),
    Row(TxtMar31, << "-","5" >>, <<>>, << "A" >>, << "c" >>),
    Row(TxtMar31, << "-","5" >>, <<>>, << "a" >>, << "C" >>),
    Row(TxtMar31, << "-","5" >>, <<>>, << "a","|","c" >>, << "c" >>),
    Row(TxtMar31, << "-","5" >>, <<>>, << "a" >>, << "c","|","c" >>) }

DedupFileNames == { << "a",".","c","s","v" >>, << "b",".","c","s","v" >> }

\* the batch whose i-th file is named names[i] and holds the next sizes[i] rows
MakeBatch(rows, sizes, names) ==
  [i \in 1..Len(sizes) |->
     [ filename |-> names[i],
       content  |-> Statement(SubSeq(rows, SumOf(SubSeq(sizes, 1, i - 1)) + 1,
                                     SumOf(SubSeq(sizes, 1, i)))) ]]

\* the ways to cut at most MaxTx rows into at most MaxFiles non-empty files
BatchShapes ==
  { z \in UNION { [1..f -> 1..MaxTx] : f \in 1..MaxFiles } : SumOf(z) <= MaxTx }

(***************************************************************************)
(* The de-duplication pipeline as the tests and deduplicateTransactions    *)
(* run it: ingest a batch, find the groups, mark, remove, remove again.    *)
(***************************************************************************)
DedupInit ==
  /\ zone \in TimeZones
  /\ AppOff /\ CatOff /\ ExportOff /\ FnOff
  /\ \E sizes \in BatchShapes :
       \E names \in [1..Len(sizes) -> DedupFileNames] :
         \E rows \in [1..SumOf(sizes) -> DedupRows] :
           dBatch = MakeBatch(rows, sizes, names)
  /\ dPc = "start"
  /\ dTxs = Fail(<<>>)
  /\ dGroups = <<>>
  /\ dMarked = <<>>
  /\ dResult = <<>>
  /\ dResult2 = <<>>

Ingest ==
  /\ dPc = "start"
  /\ dTxs' = parseMultipleCSVs(dBatch)
  /\ dPc' = "ingested"
  /\ UNCHANGED << zone, fnVars, appVars, catVars, exportVars, dBatch, dGroups, dMarked, dResult, dResult2 >>

Find ==
  /\ dPc = "ingested"
  /\ dTxs.ok
  /\ dGroups' = findDuplicates(dTxs.val, zone)
  /\ dPc' = "found"
  /\ UNCHANGED << zone, fnVars, appVars, catVars, exportVars, dBatch, dTxs, dMarked, dResult, dResult2 >>

Mark ==
  /\ dPc = "found"
  /\ dMarked' = markDuplicates(dTxs.val, dGroups)
  /\ dPc' = "marked"
  /\ UNCHANGED << zone, fnVars, appVars, catVars, exportVars, dBatch, dTxs, dGroups, dResult, dResult2 >>

Remove ==
  /\ dPc \in {"found", "marked"}
  /\ dResult' = removeDuplicates(dTxs.val, getTransactionsToRemove(dGroups))
  /\ dPc' = "removed"
  /\ UNCHANGED << zone, fnVars, appVars, catVars, exportVars, dBatch, dTxs, dGroups, dMarked, dResult2 >>

RemoveAgain ==
  /\ dPc = "removed"
  /\ dResult2' = removeDuplicates(dResult, getTransactionsToRemove(dGroups))
  /\ dPc' = "removedTwice"
  /\ UNCHANGED << zone, fnVars, appVars, catVars, exportVars, dBatch, dTxs, dGroups, dMarked, dResult >>

DedupNext == Ingest \/ Find \/ Mark \/ Remove \/ RemoveAgain

SpecDedup == DedupInit /\ [][DedupNext]_vars

(***************************************************************************)
(* The categorisation function on its own: transactions as ingestion       *)
(* makes them, and every short list of rules over a few patterns.          *)
(***************************************************************************)
TxtLidl == << "L","i","d","l" >>

TxtFood == << "f","o","o","d" >>

TxtFun == << "f","u","n" >>

CatRows ==
  { Row(TxtMar31, << "-","5" >>, <<>>, TxtLidl, <<>>),
    Row(TxtMar31, << "-","3" >>, <<>>, << "L","I","D","L"," ","b","a","r" >>, <<>>),
    Row(TxtApr1,  << "7" >>,     <<>>, TxtLidl, <<>>) }

CatMappings ==
  { createMapping(p, c, m) :
      p \in { << "l","i","d","l" >>, << "B","a","r" >> },
      c \in { TxtFood, TxtFun },
      m \in { TxtExact, TxtContains } }

\* the lists of at most n members of S
SeqsUpTo(S, n) == UNION { [1..k -> S] : k \in 0..n }

CatInit ==
  /\ zone = "west"
  /\ AppOff /\ DedupOff /\ ExportOff /\ FnOff
  /\ cPc = "start"
  /\ \E rows \in SeqsUpTo(CatRows, MaxTx) \ { <<>> } :
       cTxs = parseNordeaCSV(Statement(rows), << "a",".","c","s","v" >>).val
  /\ cMaps \in SeqsUpTo(CatMappings, MaxMaps)
  /\ cOut = <<>>

Apply ==
  /\ cPc = "start"
  /\ cOut' = applyCategories(cTxs, cMaps)
  /\ cPc' = "applied"
  /\ UNCHANGED << zone, fnVars, appVars, dedupVars, exportVars, cTxs, cMaps >>

CatNext == Apply

SpecCat == CatInit /\ [][CatNext]_vars

(***************************************************************************)
(* The mapping document on its own: every short rule list the application  *)
(* can hold is exported, then read back both ways.                         *)
(***************************************************************************)
ExportNames == { << "A","n","n" >>, << "B","o","b" >> }

ExportInit ==
  /\ zone \in TimeZones
  /\ AppOff /\ DedupOff /\ CatOff /\ FnOff
  /\ ePc = "start"
  /\ eMaps \in SeqsUpTo(CatMappings, MaxMaps)
  /\ eNames \in SeqsUpTo(ExportNames, 2)
  /\ eDoc = <<>>
  /\ eParsed = Fail(<<>>)
  /\ eUploaded = <<>>

Export ==
  /\ ePc = "start"
  /\ \E now \in Timestamps : eDoc' = mappingsToJSON(eMaps, eNames, now)
  /\ ePc' = "exported"
  /\ UNCHANGED << zone, fnVars, appVars, dedupVars, catVars, eMaps, eNames, eParsed, eUploaded >>

Reparse ==
  /\ ePc = "exported"
  /\ eParsed' = parseGroupingsFile(eDoc)
  /\ ePc' = "reparsed"
  /\ UNCHANGED << zone, fnVars, appVars, dedupVars, catVars, eMaps, eNames, eDoc, eUploaded >>

Upload ==
  /\ ePc = "reparsed"
  /\ eUploaded' = safeParse(JSONparse(eDoc).val)
  /\ ePc' = "uploaded"
  /\ UNCHANGED << zone, fnVars, appVars, dedupVars, catVars, eMaps, eNames, eDoc, eParsed >>

ExportNext == Export \/ Reparse \/ Upload

SpecExport == ExportInit /\ [][ExportNext]_vars

(***************************************************************************)
(* The application: uploads on the landing screen, each processFiles run   *)
(* advancing from await to await, and the handlers of the screens.         *)
(***************************************************************************)
TxtAnn == << "A","n","n" >>

TxtCat == << "C","a","t" >>

TxtPay == << "p","a","y" >>

\* a File: its name and its text
File(name, text) == [name |-> name, text |-> text]

\* two statements that share their first transaction
FileA ==
  File(<< "a",".","c","s","v" >>,
       Statement(<< Row(TxtMar31, << "-","5" >>, <<>>, TxtLidl, << "c" >>),
                    Row(TxtApr1, << "7" >>, TxtAnn, TxtPay, <<>>) >>))

FileB ==
  File(<< "b",".","c","s","v" >>,
       Statement(<< Row(TxtMar31, << "-","5" >>, <<>>, TxtLidl, << "c" >>),
                    Row(TxtApr1, << "9" >>, TxtAnn, TxtPay, <<>>) >>))

\* a statement whose only row has no date
FileBad ==
  File(<< "c",".","c","s","v" >>,
       Statement(<< Row(<< "x" >>, << "1" >>, <<>>, TxtPay, <<>>) >>))

\* a mapping document as the application exports it
FileGroupings ==
  File(<< "g",".","j","s","o","n" >>,
       mappingsToJSON(<< createMapping(<< "l","i","d","l" >>, TxtFood, TxtExact) >>,
                      << TxtCat >>,
                      CHOOSE now \in Timestamps : TRUE))

\* a .json file that is not JSON
FileNotJSON ==
  File(<< "g",".","j","s","o","n" >>,
       [ blank |-> FALSE, errors |-> << [row |-> Some(1)] >>, fields |-> {}, data |-> <<>>,
         json |-> Fail("SyntaxError") ])

\* a .json file that is JSON but no mapping document
FileOtherJSON == File(<< "g",".","j","s","o","n" >>, JSONstringify(JArr(<<>>)))

\* the batches dropped on the landing screen: one statement, two that
\* overlap, the same one twice, the same one twice with one that overlaps,
\* one that does not parse after one that does,
\* statements with each kind of .json file, and a .json file alone
UploadBatches ==
  { << FileA >>,
    << FileA, FileB >>,
    << FileA, FileA >>,
    << FileA, FileA, FileB >>,
    << FileA, FileBad >>,
    << FileA, FileGroupings >>,
    << FileA, FileB, FileGroupings >>,
    << FileA, FileNotJSON >>,
    << FileA, FileOtherJSON >>,
    << FileGroupings >> }

\* the category a user types
CategoryInputs == { << "f","u","n"," " >> }

\* the useState values of a screen when it mounts
Mounted(st) ==
  [ selected        |-> IF st.step = "contributors"
                        THEN With(findTopContributors(st.transactions, 10), LAMBDA all :
                               [i \in 1..(IF Len(all) < 2 THEN Len(all) ELSE 2) |-> all[i].name])
                        ELSE <<>>,
    toggled         |-> FALSE,
    skippedTitles   |-> {},
    selectedPattern |-> None ]

\* the screen after a render: a new step mounts a new screen
Rendered(before, after, scr) ==
  IF after.step # before.step THEN Mounted(after) ELSE scr

\* what is kept of the dispatched actions: the mapping document loaded; RESET
\* starts the record afresh.  The record also keeps what Continue selected,
\* the list with which the categorize step was entered, and whether a
\* category has been assigned since
Noted(h, actions) ==
  With({i \in 1..Len(actions) : actions[i].type \in {"GROUPINGS_LOADED", "RESET"}},
       LAMBDA hits :
    IF hits = {} THEN h
    ELSE IF actions[Max(hits)].type = "RESET"
    THEN [h EXCEPT !.imported = None, !.continued = None, !.assigned = FALSE]
    ELSE [h EXCEPT !.imported = Some([ contributors |-> actions[Max(hits)].contributors,
                                       categories   |-> actions[Max(hits)].categories ])])

\* dispatch(a) for each of the actions, and the render that follows
Dispatch(actions) ==
  /\ state' = DispatchAll(state, actions)
  /\ screen' = Rendered(state, DispatchAll(state, actions), screen)

\* a stretch of run r: its actions dispatched and logged, the run advanced
Advance(r, stretch) ==
  /\ Dispatch(stretch.actions)
  /\ runs' = [k \in 1..(IF r > Len(runs) THEN r ELSE Len(runs)) |->
                IF k = r
                THEN [stretch.run EXCEPT !.log =
                        @ \o [i \in 1..Len(stretch.actions) |-> ActionTag(stretch.actions[i])]]
                ELSE runs[k]]
  /\ hist' = Noted(hist, stretch.actions)

\* the zones the application is run in here
AppZones == { "dst" }

AppInit ==
  /\ zone \in AppZones
  /\ DedupOff /\ CatOff /\ ExportOff /\ FnOff
  /\ state = initialState
  /\ runs = <<>>
  /\ screen = Mounted(initialState)
  /\ hist = [imported |-> None, continued |-> None, assigned |-> FALSE]

\* LandingScreen: files dropped or chosen (handleFilesSelected); the
\* controls are disabled while isLoading
StartRun ==
  /\ state.step = "landing"
  /\ ~state.isLoading
  /\ Len(runs) < MaxRuns
  /\ \E files \in UploadBatches : Advance(Len(runs) + 1, processFilesStart(files))
  /\ UNCHANGED << zone, fnVars, dedupVars, catVars, exportVars >>

\* FILES_LOADED dispatched after each file with the transactions so far
ReadCsvEager(r) ==
  /\ runs[r].pc = "csv"
  /\ Advance(r, With(processFilesCsv(runs[r], zone), LAMBDA s :
                  [ run     |-> s.run,
                    actions |-> << [ type         |-> "FILES_LOADED",
                                     transactions |-> s.run.allTransactions ] >>
                                \o s.actions ]))
  /\ UNCHANGED << zone, fnVars, dedupVars, catVars, exportVars >>

\* the text of the next CSV file of run r arrives
ReadCsv(r) ==
  /\ runs[r].pc = "csv"
  /\ Advance(r, processFilesCsv(runs[r], zone))
  /\ UNCHANGED << zone, fnVars, dedupVars, catVars, exportVars >>

\* the text of the groupings file of run r arrives
ReadJson(r) ==
  /\ runs[r].pc = "json"
  /\ Advance(r, processFilesJson(runs[r], zone))
  /\ UNCHANGED << zone, fnVars, dedupVars, catVars, exportVars >>

\* DedupScreen: handleRemoveDuplicates
handleRemoveDuplicates ==
  /\ state.step = "dedup"
  /\ Dispatch(<< [ type         |-> "DUPLICATES_RESOLVED",
                   transactions |-> removeDuplicates(state.transactions,
                                      getTransactionsToRemove(state.duplicateGroups)),
                   removedCount |-> Len(getTransactionsToRemove(state.duplicateGroups)) ] >>)
  /\ UNCHANGED << zone, fnVars, runs, hist, dedupVars, catVars, exportVars >>

\* DedupScreen: handleKeepAll
handleKeepAll ==
  /\ state.step = "dedup"
  /\ Dispatch(<< [ type         |-> "DUPLICATES_RESOLVED",
                   transactions |-> state.transactions,
                   removedCount |-> 0 ] >>)
  /\ UNCHANGED << zone, fnVars, runs, hist, dedupVars, catVars, exportVars >>

\* ContributorsScreen: handleToggle(name), for a name on display
handleToggle ==
  /\ state.step = "contributors"
  /\ \E c \in Range(findTopContributors(state.transactions, 10)) :
       screen' = [screen EXCEPT
                    !.selected = IF c.name \in Range(@)
                                 THEN Filter(@, LAMBDA n : n # c.name)
                                 ELSE Append(@, c.name),
                    !.toggled = TRUE]
  /\ UNCHANGED << zone, fnVars, state, runs, hist, dedupVars, catVars, exportVars >>

\* ContributorsScreen: handleContinue
handleContinue ==
  /\ state.step = "contributors"
  /\ Dispatch(<< [type |-> "CONTRIBUTORS_SELECTED", names |-> screen.selected],
                 [type |-> "TRANSACTIONS_TAGGED",
                  transactions |-> tagContributions(state.transactions, screen.selected)] >>)
  /\ hist' = [hist EXCEPT !.continued =
                Some([ names        |-> screen.selected,
                       toggled      |-> screen.toggled,
                       imported     |-> hist.imported,
                       transactions |-> tagContributions(state.transactions,
                                                         screen.selected) ]),
                            !.assigned = FALSE]
  /\ UNCHANGED << zone, fnVars, runs, dedupVars, catVars, exportVars >>

\* CategorizationScreen: the review queue
Suggestions ==
  Filter(suggestCategories(state.transactions),
         LAMBDA s : s.title \notin screen.skippedTitles)

\* the two dispatches of handleAssign and handlePatternAssign
AddAndApply(mapping) ==
  Dispatch(<< [type |-> "CATEGORY_ADDED", mapping |-> mapping],
              [type |-> "CATEGORIES_APPLIED",
               transactions |-> applyCategories(state.transactions,
                                                Append(state.categoryMappings, mapping))] >>)

\* CategorizationScreen: handleAssign(category)
handleAssign ==
  /\ state.step = "categorize"
  /\ Suggestions # <<>>
  /\ \E category \in CategoryInputs :
       /\ trim(category) # <<>>
       /\ AddAndApply(createMapping(Suggestions[1].title, trim(category), TxtExact))
  /\ hist' = [hist EXCEPT !.assigned = TRUE]
  /\ UNCHANGED << zone, fnVars, runs, dedupVars, catVars, exportVars >>

\* CategorizationScreen: handleSkip
handleSkip ==
  /\ state.step = "categorize"
  /\ Suggestions # <<>>
  /\ screen' = [screen EXCEPT !.skippedTitles = @ \cup {Suggestions[1].title}]
  /\ UNCHANGED << zone, fnVars, state, runs, hist, dedupVars, catVars, exportVars >>

\* the keyword chips on display
PatternChips ==
  With(extractTitlePatterns(state.transactions), LAMBDA patterns :
    IF Suggestions = <<>> THEN <<>>
    ELSE SubSeq(patterns, 1, IF Len(patterns) < 12 THEN Len(patterns) ELSE 12))

\* CategorizationScreen: a keyword chip clicked
selectPattern ==
  /\ state.step = "categorize"
  /\ \E p \in Range(PatternChips) :
       screen' = [screen EXCEPT !.selectedPattern =
                    IF @ = Some(p.pattern) THEN None ELSE Some(p.pattern)]
  /\ UNCHANGED << zone, fnVars, state, runs, hist, dedupVars, catVars, exportVars >>

\* CategorizationScreen: handlePatternAssign(category)
handlePatternAssign ==
  /\ state.step = "categorize"
  /\ PatternChips # <<>>
  /\ screen.selectedPattern # None
  /\ \E category \in CategoryInputs :
       /\ trim(category) # <<>>
       /\ state' = DispatchAll(state,
            << [type |-> "CATEGORY_ADDED",
                mapping |-> createMapping(screen.selectedPattern[1], trim(category), TxtContains)],
               [type |-> "CATEGORIES_APPLIED",
                transactions |->
                  applyCategories(state.transactions,
                    Append(state.categoryMappings,
                           createMapping(screen.selectedPattern[1], trim(category),
                                         TxtContains)))] >>)
  /\ screen' = [screen EXCEPT !.selectedPattern = None]
  /\ hist' = [hist EXCEPT !.assigned = TRUE]
  /\ UNCHANGED << zone, fnVars, runs, dedupVars, catVars, exportVars >>

\* the reportData handleFinish builds: the months are those from the first
\* transaction of the list to the last
ReportOf(transactions, selectedContributors, duplicatesRemoved) ==
  ReportFor(transactions, selectedContributors, duplicatesRemoved,
            getAllMonthsInRange(
              IF transactions = <<>> THEN Today ELSE transactions[1].date,
              IF transactions = <<>> THEN Today ELSE transactions[Len(transactions)].date))

\* CategorizationScreen: handleFinish
handleFinish ==
  /\ state.step = "categorize"
  /\ Dispatch(<< [type |-> "REPORT_GENERATED", data |-> ReportOf(state.transactions, state.selectedContributors,
                                    state.duplicatesRemoved)] >>)
  /\ UNCHANGED << zone, fnVars, runs, hist, dedupVars, catVars, exportVars >>

\* the activation record of a call that has returned is gone
Returned ==
  [ pc |-> "returned", csvFiles |-> <<>>, groupingsFile |-> None, i |-> 0,
    allTransactions |-> <<>>, log |-> <<>> ]

\* ReportScreen: handleStartOver; the logs of the calls that are over are
\* dropped with the session
handleStartOver ==
  /\ state.step = "report"
  /\ state.reportData # None
  /\ Dispatch(<< [type |-> "RESET"] >>)
  /\ hist' = Noted(hist, << [type |-> "RESET"] >>)
  /\ runs' = [k \in 1..Len(runs) |-> IF runs[k].pc = "done" THEN Returned ELSE runs[k]]
  /\ UNCHANGED << zone, fnVars, dedupVars, catVars, exportVars >>

Next ==
  \/ StartRun
  \/ \E r \in 1..Len(runs) : ReadCsv(r)
  \/ \E r \in 1..Len(runs) : ReadJson(r)
  \/ handleRemoveDuplicates
  \/ handleKeepAll
  \/ handleToggle
  \/ handleContinue
  \/ handleAssign
  \/ handleSkip
  \/ selectPattern
  \/ handlePatternAssign
  \/ handleFinish
  \/ handleStartOver

Spec == AppInit /\ [][Next]_vars

(***************************************************************************)
(* The contributor functions on their own: income named by the name field  *)
(* or by the title, income that names nobody, an expense and a zero        *)
(* amount, in every short order.                                           *)
(***************************************************************************)
TxtAnnU == << "A","N","N" >>

TxtBob == << "B","o","b" >>

ContribRows ==
  { Row(TxtMar31, << "7" >>,     <<>>,            << "A","n","n"," ","p","a","y" >>, <<>>),
    Row(TxtMar31, << "2" >>,     TxtAnnU,         << "x" >>, <<>>),
    Row(TxtMar31, << "7" >>,     <<>>,            TxtBob, <<>>),
    Row(TxtMar31, << "9" >>,     << "1","2" >>,   << "A","n","n" >>, <<>>),
    Row(TxtMar31, << "-","5" >>, <<>>,            << "A","n","n" >>, <<>>),
    Row(TxtMar31, << "0" >>,     <<>>,            TxtBob, <<>>) }

ContribNames == { << "A","n","n" >>, << "b","o","b" >>, << "C","a","t" >> }

ContribInit ==
  /\ zone = "west"
  /\ AppOff /\ DedupOff /\ CatOff /\ ExportOff
  /\ fPc = "start"
  /\ \E rows \in SeqsUpTo(ContribRows, MaxTx) \ { <<>> } :
       fArgs = [ transactions |->
                   parseNordeaCSV(Statement(rows), << "a",".","c","s","v" >>).val ]
  /\ fRes = <<>>

Tag ==
  /\ fPc = "start"
  /\ \E selectedNames \in SeqsUpTo(ContribNames, 2) :
       /\ fArgs' = [ transactions |-> fArgs.transactions, selectedNames |-> selectedNames ]
       /\ fRes' = tagContributions(fArgs.transactions, selectedNames)
  /\ fPc' = "tagged"
  /\ UNCHANGED << zone, appVars, dedupVars, catVars, exportVars >>

Rank ==
  /\ fPc = "start"
  /\ \E count \in 0..MaxTx :
       /\ fArgs' = [ transactions |-> fArgs.transactions, count |-> count ]
       /\ fRes' = findTopContributors(fArgs.transactions, count)
  /\ fPc' = "ranked"
  /\ UNCHANGED << zone, appVars, dedupVars, catVars, exportVars >>

RankAll ==
  /\ fPc = "start"
  /\ fRes' = findAllContributors(fArgs.transactions)
  /\ fPc' = "rankedAll"
  /\ UNCHANGED << zone, appVars, dedupVars, catVars, exportVars, fArgs >>

ContribNext == Tag \/ Rank \/ RankAll

SpecContrib == ContribInit /\ [][ContribNext]_vars

(***************************************************************************)
(* The calculations on their own, over transactions as the earlier steps   *)
(* of the wizard leave them: ingested and sorted, tagged with the tracked  *)
(* contributors, categorised.  The rows span a turn of the year and leave  *)
(* months without any transaction.                                         *)
(***************************************************************************)
TxtJan31 == << "2","0","2","3","/","0","1","/","3","1" >>

TxtDec15 == << "2","0","2","3","/","1","2","/","1","5" >>

CalcRows ==
  { Row(TxtDec15, << "1","0" >>, << "A","n","n" >>, <<>>, <<>>),
    Row(TxtDec15, << "6" >>,     TxtBob,            <<>>, <<>>),
    Row(TxtApr1,  << "3" >>,     << "C","a","t" >>, <<>>, <<>>),
    Row(TxtDec15, << "-","5" >>, <<>>,              TxtLidl, <<>>),
    Row(TxtMar31, << "-","3" >>, <<>>,              << "B","a","r" >>, <<>>),
    Row(TxtApr1,  << "0" >>,     <<>>,              << "x" >>, <<>>) }

\* the lists of tracked contributors
CalcContributors ==
  { <<>>,
    << << "A","n","n" >> >>,
    << << "A","n","n" >>, TxtBob >>,
    << TxtBob, << "A","n","n" >>, << "C","a","t" >> >>,
    << << "C","a","t" >>, TxtBob, << "A","n","n" >> >> }

\* the days a range may begin or end with
CalcDates == { parseNordeaDate(d).val : d \in { TxtJan31, TxtDec15, TxtMar31, TxtApr1 } }

\* the ranges an aggregation is asked for: the span of the transactions, as
\* handleFinish takes it, a wider one and a narrower one
CalcRanges(transactions) ==
  { << transactions[1].date, transactions[Len(transactions)].date >>,
    << parseNordeaDate(TxtDec15).val, parseNordeaDate(TxtApr1).val >>,
    << parseNordeaDate(TxtMar31).val, parseNordeaDate(TxtMar31).val >> }

\* the transactions of the rows after ingestion, tagging and categorisation
CalcTransactions(rows, contributors) ==
  applyCategories(
    tagContributions(
      parseMultipleCSVs(<< [ content  |-> Statement(rows),
                             filename |-> << "a",".","c","s","v" >> ] >>).val,
      contributors),
    << createMapping(<< "l","i","d","l" >>, TxtFood, TxtExact) >>)

CalcInit ==
  /\ zone = "west"
  /\ AppOff /\ DedupOff /\ CatOff /\ ExportOff
  /\ fPc = "start"
  /\ \E rows \in SeqsUpTo(CalcRows, MaxTx) \ { <<>> } :
       fArgs = [ rows |-> rows, transactions |-> CalcTransactions(rows, <<>>) ]
  /\ fRes = <<>>

\* getAllMonthsInRange(start, end)
Months ==
  /\ fPc = "start"
  /\ \E start, end \in CalcDates :
       /\ start <= end
       /\ fArgs' = [ start |-> start, end |-> end ]
       /\ fRes' = getAllMonthsInRange(start, end)
  /\ fPc' = "months"
  /\ UNCHANGED << zone, appVars, dedupVars, catVars, exportVars >>

\* calculateMonthlyCashFlow over the months of a range
CashFlow ==
  /\ fPc = "start"
  /\ \E range \in CalcRanges(fArgs.transactions) :
       /\ fArgs' = [ transactions |-> fArgs.transactions,
                     start        |-> range[1],
                     end          |-> range[2],
                     allMonths    |-> getAllMonthsInRange(range[1], range[2]) ]
       /\ fRes' = calculateMonthlyCashFlow(fArgs.transactions,
                                           getAllMonthsInRange(range[1], range[2]))
  /\ fPc' = "cashFlow"
  /\ UNCHANGED << zone, appVars, dedupVars, catVars, exportVars >>

\* calculateMonthlyContributions over the months of a range
ContributionsOf(transactions, contributors, range) ==
  /\ fArgs' = [ transactions |-> transactions,
                contributors |-> contributors,
                start        |-> range[1],
                end          |-> range[2],
                allMonths    |-> getAllMonthsInRange(range[1], range[2]) ]
  /\ fRes' = calculateMonthlyContributions(transactions, contributors,
                                           getAllMonthsInRange(range[1], range[2]))

Contributions ==
  /\ fPc = "start"
  /\ \E contributors \in CalcContributors :
       \E range \in CalcRanges(fArgs.transactions) :
         ContributionsOf(CalcTransactions(fArgs.rows, contributors), contributors, range)
  /\ fPc' = "contributions"
  /\ UNCHANGED << zone, appVars, dedupVars, catVars, exportVars >>

\* calculateMonthlySpending over the months of a range
Spending ==
  /\ fPc = "start"
  /\ \E range \in CalcRanges(fArgs.transactions) :
       /\ fArgs' = [ transactions |-> fArgs.transactions,
                     start        |-> range[1],
                     end          |-> range[2],
                     allMonths    |-> getAllMonthsInRange(range[1], range[2]) ]
       /\ fRes' = calculateMonthlySpending(fArgs.transactions,
                                           getAllMonthsInRange(range[1], range[2]))
  /\ fPc' = "spending"
  /\ UNCHANGED << zone, appVars, dedupVars, catVars, exportVars >>

\* the contributions section of the report as handleFinish builds it
ReportContributions(transactions, selectedContributors) ==
  With(getAllMonthsInRange(transactions[1].date, transactions[Len(transactions)].date),
       LAMBDA allMonths :
    With(calculateContributorSummaries(transactions, selectedContributors, Len(allMonths)),
         LAMBDA contributorSummaries :
      With(calculateEqualisation(contributorSummaries), LAMBDA equalisation :
        [ contributors       |-> contributorSummaries,
          monthly            |-> calculateMonthlyContributions(transactions,
                                   selectedContributors, allMonths),
          totalDifference    |-> equalisation.difference,
          equalisationAmount |-> equalisation.equalisationAmount ])))

\* handleFinish, the contributions of the report
EqualiseOf(transactions, contributors) ==
  /\ fArgs' = [ transactions |-> transactions, contributors |-> contributors ]
  /\ fRes' = ReportContributions(transactions, contributors)

Equalise ==
  /\ fPc = "start"
  /\ \E contributors \in CalcContributors :
       EqualiseOf(CalcTransactions(fArgs.rows, contributors), contributors)
  /\ fPc' = "report"
  /\ UNCHANGED << zone, appVars, dedupVars, catVars, exportVars >>

CalcNext == Months \/ CashFlow \/ Contributions \/ Spending \/ Equalise

SpecCalc == CalcInit /\ [][CalcNext]_vars

(***************************************************************************)
(* The statement parser on its own: texts that are blank, that Papa.parse  *)
(* reports errors for, that lack a column or have no data row, and data    *)
(* rows that are well-formed, have a blank booking date, an unreadable     *)
(* date or amount, or lack a column value.                                 *)
(***************************************************************************)
TxtIngestName == << "a",".","c","s","v" >>

\* a row that lacks the value of a column
RowWithout(row, column) == [c \in (DOMAIN row) \ {column} |-> row[c]]

IngestRows ==
  { Row(TxtMar31, << "-","5" >>, <<>>, << " ","a"," " >>, << "0","1" >>),
    Row(TxtApr1,  << "7" >>,     << "A","n","n" >>, << "b" >>, <<>>),
    Row(<< " "," " >>, <<>>,     <<>>, <<>>, <<>>),
    Row(<< "x" >>,  << "7" >>,   <<>>, << "b" >>, <<>>),
    Row(TxtApr1,  <<>>,          <<>>, << "b" >>, <<>>),
    RowWithout(Row(TxtApr1, << "7" >>, <<>>, << "b" >>, <<>>), "Balance") }

\* what Papa.parse makes of a text that is not blank
IngestContents ==
  { [ blank  |-> FALSE,
      errors |-> errors,
      fields |-> fields,
      data   |-> [i \in 1..Len(data) |->
                    [c \in (DOMAIN data[i]) \cap fields |-> data[i][c]]],
      json   |-> Fail("SyntaxError") ] :
      errors \in { <<>>, << [row |-> Some(1)] >>, << [row |-> None] >> },
      fields \in { Range(EXPECTED_COLUMNS), Range(EXPECTED_COLUMNS) \ {"Amount"} },
      data   \in SeqsUpTo(IngestRows, MaxTx) }

\* a blank text
BlankContent ==
  [ blank |-> TRUE, errors |-> <<>>, fields |-> {}, data |-> <<>>,
    json |-> Fail("SyntaxError") ]

\* the text without its trailing rows of blank booking date
RECURSIVE WithoutTrailingBlank(_)
WithoutTrailingBlank(content) ==
  IF /\ content.data # <<>>
     /\ "Booking date" \in DOMAIN content.data[Len(content.data)]
     /\ trim(content.data[Len(content.data)]["Booking date"]) = <<>>
  THEN WithoutTrailingBlank(
         [content EXCEPT !.data = SubSeq(content.data, 1, Len(content.data) - 1)])
  ELSE content

IngestInit ==
  /\ zone = "west"
  /\ AppOff /\ DedupOff /\ CatOff /\ ExportOff
  /\ fPc = "start"
  /\ \E content \in IngestContents \cup { BlankContent } :
       fArgs = [ content |-> content, filename |-> TxtIngestName ]
  /\ fRes = <<>>

\* parseNordeaCSV(content, filename)
ParseStatement ==
  /\ fPc = "start"
  /\ fRes' = parseNordeaCSV(fArgs.content, fArgs.filename)
  /\ fPc' = "parsed"
  /\ UNCHANGED << zone, appVars, dedupVars, catVars, exportVars, fArgs >>

\* parseNordeaCSV of the same text without its trailing blank-date rows
ParseShortened ==
  /\ fPc = "parsed"
  /\ fRes' = [ whole     |-> fRes,
               shortened |-> parseNordeaCSV(WithoutTrailingBlank(fArgs.content),
                                            fArgs.filename) ]
  /\ fPc' = "parsedShortened"
  /\ UNCHANGED << zone, appVars, dedupVars, catVars, exportVars, fArgs >>

IngestNext == ParseStatement \/ ParseShortened

SpecIngest == IngestInit /\ [][IngestNext]_vars

(***************************************************************************)
(* The two locale parsers on their own, given texts written with digits,   *)
(* separators, signs, a blank and a letter.                                *)
(***************************************************************************)
MaxChars == 4

\* the characters amounts are written with here
AmountChars == { "1", "2", ".", ",", "-", "a" }

\* the parts dates are written with here
YearParts == { << "2","0","2","4" >>, << "2","0","2","3" >>, << "2","4" >>, <<>> }

MonthParts == { << "1" >>, << "0","2" >>, << "1","2" >>, << "1","3" >>, << "0" >>,
                <<>>, << "a" >> }

DayParts == { << "1" >>, << "2","9" >>, << "3","0" >>, << "3","1" >>, << "3","2" >>,
              << "0" >>, << " ","5" >>, << "5","a" >> }

\* texts of three parts, of two and of four
DateTexts ==
  { y \o << "/" >> \o m \o << "/" >> \o d :
      y \in YearParts, m \in MonthParts, d \in DayParts }
  \cup { y \o << "/" >> \o m : y \in YearParts, m \in MonthParts }
  \cup { y \o << "/" >> \o m \o << "/" >> \o m \o << "/" >> \o << "1" >> :
           y \in YearParts, m \in MonthParts }

ParsersInit ==
  /\ zone = "west"
  /\ AppOff /\ DedupOff /\ CatOff /\ ExportOff
  /\ fPc = "start"
  /\ \E value \in DateTexts \cup SeqsUpTo(AmountChars, MaxChars) :
       fArgs = [ value |-> value ]
  /\ fRes = <<>>

\* parseNordeaDate(value)
ParseDate ==
  /\ fPc = "start"
  /\ fRes' = parseNordeaDate(fArgs.value)
  /\ fPc' = "parseNordeaDate"
  /\ UNCHANGED << zone, appVars, dedupVars, catVars, exportVars, fArgs >>

\* parseEuropeanDecimal(value)
ParseAmount ==
  /\ fPc = "start"
  /\ fRes' = parseEuropeanDecimal(fArgs.value)
  /\ fPc' = "parseEuropeanDecimal"
  /\ UNCHANGED << zone, appVars, dedupVars, catVars, exportVars, fArgs >>

ParsersNext == ParseDate \/ ParseAmount

SpecParsers == ParsersInit /\ [][ParsersNext]_vars

(***************************************************************************)
(* The pipeline stages on their own: each is called once on a list that    *)
(* ingestion, or ingestion and earlier stages, produced.  fArgs holds the  *)
(* list and the other argument as the caller still holds them after the    *)
(* call.                                                                   *)
(***************************************************************************)
TxtBar == << " ","B","a","r"," " >>

StageRows ==
  { Row(TxtMar31, << "-","5" >>, <<>>,   TxtLidl, << "c" >>),
    Row(TxtApr1,  << "7" >>,     TxtAnn, TxtPay,  <<>>),
    Row(TxtApr1,  << "-","3" >>, <<>>,   TxtBar,  <<>>),
    Row(TxtApr1,  << "0" >>,     <<>>,   TxtPay,  <<>>) }

StageMappings ==
  { << createMapping(<< "l","i","d","l" >>, TxtFood, TxtExact) >>,
    << createMapping(<< "i" >>, TxtFun, TxtContains),
       createMapping(<< "b","a","r" >>, TxtFood, TxtExact) >> }

StageNames == { <<>>, << TxtAnn >> }

\* the rows as one statement, or as two statements of the same rows
StageFiles(rows) ==
  { << [content |-> Statement(rows), filename |-> << "a",".","c","s","v" >>] >>,
    << [content |-> Statement(rows), filename |-> << "a",".","c","s","v" >>],
       [content |-> Statement(rows), filename |-> << "b",".","c","s","v" >>] >> }

\* the lists a stage is given: as parsed, as tagged, as tagged and categorised
StageInputs(files) ==
  With(parseMultipleCSVs(files).val, LAMBDA parsed :
    { parsed,
      tagContributions(parsed, << TxtAnn >>),
      applyCategories(tagContributions(parsed, << TxtAnn >>),
                      << createMapping(<< "l","i","d","l" >>, TxtFood, TxtExact) >>) })

StagesInit ==
  /\ zone \in TimeZones
  /\ AppOff /\ DedupOff /\ CatOff /\ ExportOff
  /\ fPc = "start"
  /\ \E rows \in SeqsUpTo(StageRows, MaxTx) \ { <<>> } :
       \E files \in StageFiles(rows) :
         \E transactions \in StageInputs(files) :
           fArgs = [ transactions |-> transactions, other |-> <<>> ]
  /\ fRes = <<>>

\* removeDuplicates(transactions, toRemove) for the later members of the
\* groups findDuplicates finds; fArgs is what the caller holds after the call
StageRemove ==
  /\ fPc = "start"
  /\ fPc' = "removeDuplicates"
  /\ fArgs' = [fArgs EXCEPT !.other =
                 getTransactionsToRemove(findDuplicates(fArgs.transactions, zone))]
  /\ fRes' = removeDuplicates(fArgs.transactions,
                getTransactionsToRemove(findDuplicates(fArgs.transactions, zone)))
  /\ UNCHANGED << zone, appVars, dedupVars, catVars, exportVars >>

\* markDuplicates(transactions, findDuplicates(transactions))
StageMark ==
  /\ fPc = "start"
  /\ fPc' = "markDuplicates"
  /\ fArgs' = [fArgs EXCEPT !.other = findDuplicates(fArgs.transactions, zone)]
  /\ fRes' = markDuplicates(fArgs.transactions, findDuplicates(fArgs.transactions, zone))
  /\ UNCHANGED << zone, appVars, dedupVars, catVars, exportVars >>

\* tagContributions(transactions, selectedNames)
StageTag ==
  /\ fPc = "start"
  /\ fPc' = "tagContributions"
  /\ \E selectedNames \in StageNames :
       /\ fArgs' = [fArgs EXCEPT !.other = selectedNames]
       /\ fRes' = tagContributions(fArgs.transactions, selectedNames)
  /\ UNCHANGED << zone, appVars, dedupVars, catVars, exportVars >>

\* applyCategories(transactions, mappings)
StageCategorize ==
  /\ fPc = "start"
  /\ fPc' = "applyCategories"
  /\ \E mappings \in StageMappings :
       /\ fArgs' = [fArgs EXCEPT !.other = mappings]
       /\ fRes' = applyCategories(fArgs.transactions, mappings)
  /\ UNCHANGED << zone, appVars, dedupVars, catVars, exportVars >>

StagesNext == StageRemove \/ StageMark \/ StageTag \/ StageCategorize

SpecStages == StagesInit /\ [][StagesNext]_vars

(***************************************************************************)
(* The review queue on its own: suggestCategories and                      *)
(* getCategorizationProgress over expenses whose titles differ in case, in *)
(* surrounding blanks, or are blank, categorised or not.                   *)
(***************************************************************************)
SuggestRows ==
  { Row(TxtMar31, << "-","5" >>, <<>>,   TxtLidl, << "c" >>),
    Row(TxtApr1,  << "-","2" >>, <<>>,   << "L","I","D","L" >>, <<>>),
    Row(TxtApr1,  << "-","3" >>, <<>>,   TxtBar,  <<>>),
    Row(TxtApr1,  << "-","4" >>, <<>>,   << " "," " >>, <<>>),
    Row(TxtApr1,  << "7" >>,     TxtAnn, TxtPay,  <<>>) }

\* the list as parsed, or with the rule for "Bar" applied
SuggestInputs(rows) ==
  With(parseNordeaCSV(Statement(rows), << "a",".","c","s","v" >>).val, LAMBDA parsed :
    { parsed,
      applyCategories(parsed, << createMapping(<< "b","a","r" >>, TxtFun, TxtExact) >>) })

SuggestInit ==
  /\ zone = "west"
  /\ AppOff /\ DedupOff /\ CatOff /\ ExportOff
  /\ fPc = "start"
  /\ \E rows \in SeqsUpTo(SuggestRows, MaxTx) \ { <<>> } :
       \E transactions \in SuggestInputs(rows) :
         fArgs = [ transactions |-> transactions ]
  /\ fRes = <<>>

\* suggestCategories(transactions)
Suggest ==
  /\ fPc = "start"
  /\ fPc' = "suggestCategories"
  /\ fRes' = suggestCategories(fArgs.transactions)
  /\ UNCHANGED << zone, appVars, dedupVars, catVars, exportVars, fArgs >>

\* getCategorizationProgress(transactions)
Progress ==
  /\ fPc = "start"
  /\ fPc' = "getCategorizationProgress"
  /\ fRes' = getCategorizationProgress(fArgs.transactions)
  /\ UNCHANGED << zone, appVars, dedupVars, catVars, exportVars, fArgs >>

SuggestNext == Suggest \/ Progress

SpecSuggest == SuggestInit /\ [][SuggestNext]_vars

(***************************************************************************)
(* The sums of the report in the engine's numbers: statements of a few     *)
(* rows over two months whose amounts are tenths, sorted as processFiles   *)
(* sorts them, with and without a category.                                *)
(***************************************************************************)
SumRows ==
  { Row(TxtMar31, << "-","0",",","1" >>, <<>>,   TxtLidl, <<>>),
    Row(TxtApr1,  << "-","0",",","2" >>, <<>>,   TxtLidl, <<>>),
    Row(TxtApr1,  << "-","0",",","3" >>, <<>>,   TxtBar,  <<>>),
    Row(TxtMar31, << "0",",","1" >>,     TxtAnn, TxtPay,  <<>>),
    Row(TxtApr1,  << "0",",","7" >>,     TxtAnn, TxtPay,  <<>>),
    Row(TxtApr1,  << "0",",","2" >>,     TxtAnn, TxtPay,  <<>>) }

\* the list as processFiles loads it, or with the rule for "Bar" applied
SumInputs(rows) ==
  With(SortByDate(parseNordeaCSV(Statement(rows), << "a",".","c","s","v" >>).val),
       LAMBDA loaded :
    { loaded,
      applyCategories(loaded, << createMapping(<< "b","a","r" >>, TxtFun, TxtExact) >>) })

SumsInit ==
  /\ zone = "west"
  /\ AppOff /\ DedupOff /\ CatOff /\ ExportOff
  /\ fPc = "start"
  /\ \E rows \in SeqsUpTo(SumRows, MaxTx) \ { <<>> } :
       \E transactions \in SumInputs(rows) :
         fArgs = [ transactions |-> transactions ]
  /\ fRes = <<>>

\* handleFinish: the sums of the report as the engine computes them
FinishInDoubles ==
  /\ fPc = "start"
  /\ fPc' = "doubles"
  /\ fRes' = ReportSumsIEEE(fArgs.transactions)
  /\ UNCHANGED << zone, appVars, dedupVars, catVars, exportVars, fArgs >>

\* handleFinish: the same sums in hundredths, without rounding
FinishExactly ==
  /\ fPc = "start"
  /\ fPc' = "exact"
  /\ fRes' = ReportOf(fArgs.transactions, <<>>, 0)
  /\ UNCHANGED << zone, appVars, dedupVars, catVars, exportVars, fArgs >>

SumsNext == FinishInDoubles \/ FinishExactly

SpecSums == SumsInit /\ [][SumsNext]_vars

(***************************************************************************)
(* Tracked contributors from tagging to the report: income of three months *)
(* that names Ann in several spellings and Bob, tagged with a list of      *)
(* selected names and aggregated with the same list over the months of the *)
(* transactions.  The list is one a mapping document may carry, or the     *)
(* first names of findTopContributors as the contributors screen selects   *)
(* them.                                                                   *)
(***************************************************************************)
TrackedRows ==
  { Row(TxtDec15, << "1","0" >>, TxtAnn,  <<>>, <<>>),
    Row(TxtMar31, << "2" >>,     TxtAnnU, << "x" >>, <<>>),
    Row(TxtApr1,  << "7" >>,     <<>>,    << "A","n","n"," ","p","a","y" >>, <<>>),
    Row(TxtMar31, << "6" >>,     TxtBob,  <<>>, <<>>),
    Row(TxtApr1,  << "-","5" >>, <<>>,    TxtLidl, <<>>) }

TrackedNames ==
  { << TxtAnn >>,
    << << "a","n","n" >> >>,
    << TxtBob, TxtAnn >>,
    << TxtAnn, TxtAnn >> }

TrackedInit ==
  /\ zone = "west"
  /\ AppOff /\ DedupOff /\ CatOff /\ ExportOff
  /\ fPc = "start"
  /\ \E rows \in SeqsUpTo(TrackedRows, MaxTx) \ { <<>> } :
       fArgs = [ transactions |->
                   SortByDate(parseNordeaCSV(Statement(rows), << "a",".","c","s","v" >>).val) ]
  /\ fRes = <<>>

\* handleContinue and handleFinish with a given list of names
Track ==
  /\ fPc = "start"
  /\ \E selectedNames \in TrackedNames :
       /\ fArgs' = [ transactions  |-> tagContributions(fArgs.transactions, selectedNames),
                     selectedNames |-> selectedNames ]
       /\ fRes' = ReportOf(tagContributions(fArgs.transactions, selectedNames),
                           selectedNames, 0).contributions
  /\ fPc' = "tracked"
  /\ UNCHANGED << zone, appVars, dedupVars, catVars, exportVars >>

\* handleContinue and handleFinish with the names the contributors screen
\* selects when it mounts
TrackTop ==
  /\ fPc = "start"
  /\ With(Mounted([step |-> "contributors", transactions |-> fArgs.transactions]).selected,
          LAMBDA selectedNames :
       /\ fArgs' = [ transactions  |-> tagContributions(fArgs.transactions, selectedNames),
                     selectedNames |-> selectedNames ]
       /\ fRes' = ReportOf(tagContributions(fArgs.transactions, selectedNames),
                           selectedNames, 0).contributions)
  /\ fPc' = "trackedTop"
  /\ UNCHANGED << zone, appVars, dedupVars, catVars, exportVars >>

TrackedNext == Track \/ TrackTop

SpecTracked == TrackedInit /\ [][TrackedNext]_vars

(***************************************************************************)
(* Properties of the de-duplication pipeline.                              *)
(***************************************************************************)
\* the list ingestion produced
T == dTxs.val

\* equality on calendar day, amount, title and reference number
SameFour(t, u) ==
  /\ t.date = u.date
  /\ t.amount = u.amount
  /\ t.title = u.title
  /\ t.referenceNumber = u.referenceNumber

\* the transactions of T equal to t on the four fields, in order
FourFieldClass(t) == Filter(T, LAMBDA u : SameFour(t, u))

\* the keys of the groups reported
GroupKeys == {getTransactionKey(dGroups[g].transactions[1], zone) : g \in 1..Len(dGroups)}

\* the files of the batch have different names
DistinctFileNames ==
  \A i, j \in 1..Len(dBatch) : i # j => dBatch[i].filename # dBatch[j].filename

\* C2: the groups findDuplicates reports are exactly the classes of
\* transactions equal on calendar day, amount, title and reference number
\* whose members come from at least two source files, whatever characters
\* the title and the reference number contain.
C2_GroupsAreFourFieldClasses ==
  dPc \in {"found", "marked", "removed", "removedTwice"} =>
    {dGroups[g].transactions : g \in 1..Len(dGroups)}
      = { FourFieldClass(t) : t \in
            {u \in Range(T) :
               Cardinality({v.sourceFile : v \in Range(FourFieldClass(u))}) >= 2} }

\* C3: in a batch of differently named files, a key that occurs k times
\* inside one file still occurs at least k times after de-duplication.
C3_SameFileRepeatsKept ==
  (dPc \in {"removed", "removedTwice"} /\ DistinctFileNames) =>
    \A t \in Range(T) :
      Len(Filter(dResult, LAMBDA u :
            getTransactionKey(u, zone) = getTransactionKey(t, zone)))
        >= Len(Filter(T, LAMBDA u :
                 /\ u.sourceFile = t.sourceFile
                 /\ getTransactionKey(u, zone) = getTransactionKey(t, zone)))

\* C4: removal keeps, of each key that formed a group, exactly its first
\* transaction in T, keeps every transaction whose key formed no group, and
\* applied a second time changes nothing.
C4_KeepsOnePerGroupKey ==
  dPc = "removedTwice" =>
    /\ \A k \in GroupKeys :
         Filter(dResult, LAMBDA u : getTransactionKey(u, zone) = k)
           = << Filter(T, LAMBDA u : getTransactionKey(u, zone) = k)[1] >>
    /\ Filter(dResult, LAMBDA u : getTransactionKey(u, zone) \notin GroupKeys)
         = Filter(T, LAMBDA u : getTransactionKey(u, zone) \notin GroupKeys)
    /\ dResult2 = dResult

\* C5: when a batch holds the same statement file twice, every transaction
\* of that file is in a reported group, and after removal the file's
\* transactions are present once each.
C5_RepeatedFileDetected ==
  dPc \in {"removed", "removedTwice"} =>
    \A i, j \in 1..Len(dBatch) :
      (i < j /\ dBatch[i] = dBatch[j]) =>
        /\ \A t \in Range(T) :
             t.sourceFile = dBatch[i].filename =>
               \E g \in 1..Len(dGroups) : t \in Range(dGroups[g].transactions)
        /\ (\A k \in 1..Len(dBatch) :
              dBatch[k].filename = dBatch[i].filename => k \in {i, j}) =>
             Len(Filter(dResult, LAMBDA u : u.sourceFile = dBatch[i].filename))
               = Len(dBatch[i].content.data)

(***************************************************************************)
(* Properties of categorisation.                                           *)
(***************************************************************************)
\* the rules of the given kind, by position, that a title satisfies
RuleHits(title, mappings, matchType) ==
  {k \in 1..Len(mappings) :
     /\ mappings[k].matchType = matchType
     /\ IF matchType = TxtExact
        THEN toLowerCase(mappings[k].pattern) = toLowerCase(title)
        ELSE includes(toLowerCase(title), toLowerCase(mappings[k].pattern))}

\* the category the precedence rule gives a title: that of the first exact
\* rule satisfied, else that of the first contains rule satisfied, else none
CategoryByPrecedence(title, mappings) ==
  IF RuleHits(title, mappings, TxtExact) # {}
  THEN Some(mappings[Min(RuleHits(title, mappings, TxtExact))].category)
  ELSE IF RuleHits(title, mappings, TxtContains) # {}
  THEN Some(mappings[Min(RuleHits(title, mappings, TxtContains))].category)
  ELSE None

\* C6: applyCategories gives every uncategorized expense the category of the
\* first exact rule its trimmed title equals case-insensitively, else that of
\* the first contains rule whose pattern the title contains, else none.
C6_ExactThenContains ==
  cPc = "applied" =>
    /\ Len(cOut) = Len(cTxs)
    /\ \A i \in 1..Len(cTxs) :
         (cTxs[i].amount < 0 /\ ~Truthy(cTxs[i].category)) =>
           cOut[i].category = CategoryByPrecedence(trim(cTxs[i].title), cMaps)

\* C6 witness: an expense that satisfies a contains rule and a later exact
\* rule of another category has the exact rule's category.
C6_Witness ==
  /\ cPc = "applied"
  /\ \E i \in 1..Len(cTxs) : \E k1, k2 \in 1..Len(cMaps) :
       /\ cTxs[i].amount < 0
       /\ k1 < k2
       /\ k1 \in RuleHits(trim(cTxs[i].title), cMaps, TxtContains)
       /\ k2 \in RuleHits(trim(cTxs[i].title), cMaps, TxtExact)
       /\ cMaps[k1].category # cMaps[k2].category
       /\ cOut[i].category = Some(cMaps[k2].category)

(***************************************************************************)
(* Properties of the mapping document.                                     *)
(***************************************************************************)
\* C10: a rule list exported with mappingsToJSON and read back, by
\* parseGroupingsFile and by the schema of the upload path, gives the same
\* (pattern, category, matchType) entries in the same order.
C10_ExportRoundTrip ==
  ePc = "uploaded" =>
    /\ eParsed.ok
    /\ eParsed.val = eMaps
    /\ eUploaded.success
    /\ eUploaded.data.categories = eMaps

(***************************************************************************)
(* Properties of the application.                                          *)
(***************************************************************************)
\* some CSV file of the list does not parse
ParseFails(csvFiles) ==
  \E i \in 1..Len(csvFiles) : ~parseNordeaCSV(csvFiles[i].text, csvFiles[i].name).ok

\* the files as parseMultipleCSVs takes them
AsInputs(csvFiles) ==
  [i \in 1..Len(csvFiles) |-> [content |-> csvFiles[i].text, filename |-> csvFiles[i].name]]

\* the step taken is a stretch of run r
StretchOf(r) ==
  /\ r <= Len(runs')
  /\ runs'[r].pc # "returned"
  /\ r > Len(runs) \/ runs'[r] # runs[r]

\* C1: no stretch of a processFiles run whose batch holds a CSV file that
\* does not parse changes state.transactions, state.rawTransactions,
\* state.duplicateGroups or state.step or dispatches anything but the
\* loading flag and the error, and parseMultipleCSVs throws on such a batch.
C1_ParseErrorExposesNothing ==
  [][\A r \in 1..MaxRuns :
       (StretchOf(r) /\ ParseFails(runs'[r].csvFiles)) =>
         /\ state'.transactions = state.transactions
         /\ state'.rawTransactions = state.rawTransactions
         /\ state'.duplicateGroups = state.duplicateGroups
         /\ state'.step = state.step
         /\ Range(runs'[r].log) \subseteq {"SET_LOADING", "SET_ERROR(null)", "SET_ERROR"}
         /\ ~parseMultipleCSVs(AsInputs(runs'[r].csvFiles)).ok]_vars

\* C1 witness: while the transactions of an earlier upload are held, a run
\* whose second file does not parse has ended with only the error dispatched.
C1_Witness ==
  /\ state.step = "landing"
  /\ state.transactions # <<>>
  /\ state.error # None
  /\ \E r \in 1..Len(runs) :
       /\ runs[r].pc = "done"
       /\ Len(runs[r].csvFiles) = 2
       /\ ~ParseFails(<< runs[r].csvFiles[1] >>)
       /\ ParseFails(runs[r].csvFiles)
       /\ runs[r].log = << "SET_LOADING", "SET_ERROR(null)", "SET_ERROR" >>

\* C7: a run given CSV files that all parse and a .json file of any content
\* dispatches FILES_LOADED and DUPLICATES_FOUND and no error; when it is the
\* only run, state.error is null and the wizard has left the landing step.
C7_MalformedMappingIgnored ==
  \A r \in 1..Len(runs) :
    ( /\ runs[r].pc = "done"
      /\ runs[r].groupingsFile # None
      /\ runs[r].csvFiles # <<>>
      /\ ~ParseFails(runs[r].csvFiles) ) =>
      /\ "FILES_LOADED" \in Range(runs[r].log)
      /\ "DUPLICATES_FOUND" \in Range(runs[r].log)
      /\ "SET_ERROR" \notin Range(runs[r].log)
      /\ Len(runs) = 1 => (state.error = None /\ state.step # "landing")

\* the imported rule that the precedence order gives a transaction, if any
ImportedRule(t) ==
  CategoryFor(trim(t.title),
              Filter(hist.imported[1].categories, LAMBDA m : m.matchType = TxtExact),
              Filter(hist.imported[1].categories, LAMBDA m : m.matchType = TxtContains))

\* C8: once a mapping document is loaded, in the categorize step and in the
\* report every expense that an imported rule matches carries that rule's
\* category, the review queue holds no title an imported rule matches, and
\* the report lists no such expense as uncategorized.
C8_ImportedRulesApplied ==
  (hist.imported # None /\ state.step \in {"categorize", "report"}) =>
    /\ \A i \in 1..Len(state.transactions) :
         (state.transactions[i].amount < 0 /\ ImportedRule(state.transactions[i]) # None) =>
           state.transactions[i].category
             = Some(ImportedRule(state.transactions[i])[1].category)
    /\ state.step = "categorize" =>
         \A i \in 1..Len(Suggestions) :
           \A k \in 1..Len(hist.imported[1].categories) :
             ~titleMatchesMapping(Suggestions[i].title, hist.imported[1].categories[k])
    /\ state.reportData # None =>
         \A t \in Range(state.reportData[1].spending.uncategorized) : ImportedRule(t) = None

\* C9: when a mapping document was loaded and the user toggled nothing, the
\* names handleContinue dispatches are the contributors of the document.
C9_ContributorsRestored ==
  ( /\ hist.continued # None
    /\ hist.continued[1].imported # None
    /\ ~hist.continued[1].toggled ) =>
    hist.continued[1].names = hist.continued[1].imported[1].contributors

(***************************************************************************)
(* Properties of the contributor functions.                                *)
(***************************************************************************)
\* the selected name that the income transaction t names, if any
NamesSelected(t, selectedNames) ==
  \E k \in 1..Len(selectedNames) :
    /\ ExtractedName(t) # <<>>
    /\ toLowerCase(selectedNames[k]) = toLowerCase(ExtractedName(t))

\* C11: tagContributions returns the transactions in the same number and
\* order; one with amount > 0 has as contributor its normalized extracted
\* name when a selected name equals it case-insensitively and "Other"
\* otherwise; one with amount <= 0 is returned as it was, contributor unset.
C11_TagsIncomeOnly ==
  fPc = "tagged" =>
    /\ Len(fRes) = Len(fArgs.transactions)
    /\ \A i \in 1..Len(fArgs.transactions) :
         fRes[i] =
           IF fArgs.transactions[i].amount > 0
           THEN [fArgs.transactions[i] EXCEPT !.contributor =
                   IF NamesSelected(fArgs.transactions[i], fArgs.selectedNames)
                   THEN Some(normalizeName(ExtractedName(fArgs.transactions[i])))
                   ELSE Some(TxtOther)]
           ELSE [fArgs.transactions[i] EXCEPT !.contributor = None]

\* C11 witness: one income is tagged with a selected name taken from its
\* name field in other letter case, one income is tagged "Other", and an
\* expense is left untagged.
C11_Witness ==
  /\ fPc = "tagged"
  /\ \E i, j, k \in 1..Len(fRes) :
       /\ fRes[i].name = TxtAnnU
       /\ fRes[i].contributor = Some(<< "A","n","n" >>)
       /\ fRes[j].amount > 0
       /\ fRes[j].contributor = Some(TxtOther)
       /\ fRes[k].amount < 0
       /\ fRes[k].contributor = None

\* the extracted names of the strictly positive transactions
IncomeNames(transactions) ==
  { ExtractedName(transactions[i]) :
      i \in {j \in 1..Len(transactions) : transactions[j].amount > 0} } \ { <<>> }

\* the positions of the strictly positive transactions that name e
IncomeOf(transactions, e) ==
  {i \in 1..Len(transactions) :
     transactions[i].amount > 0 /\ ExtractedName(transactions[i]) = e}

\* the sum of the amounts at the given positions
TotalAt(transactions, S) ==
  SumOf([i \in 1..Len(transactions) |-> IF i \in S THEN transactions[i].amount ELSE 0])

\* name d stands before name e: larger total, or equal total and seen first
StandsBefore(transactions, d, e) ==
  \/ TotalAt(transactions, IncomeOf(transactions, d))
       > TotalAt(transactions, IncomeOf(transactions, e))
  \/ /\ TotalAt(transactions, IncomeOf(transactions, d))
          = TotalAt(transactions, IncomeOf(transactions, e))
     /\ Min(IncomeOf(transactions, d)) < Min(IncomeOf(transactions, e))

\* the place of name e in the ranking
PlaceOf(transactions, e) ==
  1 + Cardinality({d \in IncomeNames(transactions) : StandsBefore(transactions, d, e)})

\* r is the ranking of transactions cut to its first n entries
IsRanking(r, transactions, n) ==
  /\ Len(r) = Min({n, Cardinality(IncomeNames(transactions))})
  /\ \A e \in IncomeNames(transactions) :
       PlaceOf(transactions, e) <= n =>
         r[PlaceOf(transactions, e)] =
           [ name             |-> normalizeName(e),
             total            |-> TotalAt(transactions, IncomeOf(transactions, e)),
             transactionCount |-> Cardinality(IncomeOf(transactions, e)) ]

\* C12: findTopContributors(T, n) has one entry per distinct extracted name
\* of the strictly positive transactions, with their sum and count, by
\* descending total, ties in first-seen order, cut to the first n entries;
\* findAllContributors gives them all.
C12_RankedContributors ==
  /\ fPc = "ranked" => IsRanking(fRes, fArgs.transactions, fArgs.count)
  /\ fPc = "rankedAll" =>
       IsRanking(fRes, fArgs.transactions, Cardinality(IncomeNames(fArgs.transactions)))

\* C12 witness: two names with equal totals are ranked, the one seen later
\* in the input second, beside a transaction that is not income; and a
\* ranking was cut short.
C12_Witness ==
  /\ fPc = "ranked"
  /\ Len(fRes) = 2
  /\ fRes[1].total = fRes[2].total
  /\ fRes[1].name = TxtBob
  /\ \E i \in 1..Len(fArgs.transactions) : fArgs.transactions[i].amount <= 0

(***************************************************************************)
(* Properties of the calculations.                                         *)
(***************************************************************************)
\* the year and the month number written in a month text
YearWritten(month) == DigitsValue(SubSeq(month, 1, Len(month) - 3))

MonthWritten(month) == DigitsValue(SubSeq(month, Len(month) - 1, Len(month)))

\* the date lies in the calendar month a month text names
DatedIn(date, month) ==
  /\ NewDate(YearWritten(month), MonthWritten(month) - 1, 1) <= date
  /\ date < NewDate(YearWritten(month), MonthWritten(month), 1)

\* the positions of the transactions dated in a month
PositionsIn(transactions, month) ==
  {i \in 1..Len(transactions) : DatedIn(transactions[i].date, month)}

\* C13: the entry calculateMonthlyCashFlow gives for each month of its list
\* has as income the sum of the positive amounts dated in the month, as
\* outgoings the sum of the absolute values of the negative ones, as net
\* their difference, and as cumulativeBalance the sum of net over the months
\* of the list up to and including it.
C13_MonthlyCashFlow ==
  fPc = "cashFlow" =>
    /\ Len(fRes) = Len(fArgs.allMonths)
    /\ \A m \in 1..Len(fArgs.allMonths) :
         /\ fRes[m].month = fArgs.allMonths[m]
         /\ fRes[m].income =
              TotalAt(fArgs.transactions,
                      {i \in PositionsIn(fArgs.transactions, fArgs.allMonths[m]) :
                         fArgs.transactions[i].amount > 0})
         /\ fRes[m].outgoings =
              0 - TotalAt(fArgs.transactions,
                          {i \in PositionsIn(fArgs.transactions, fArgs.allMonths[m]) :
                             fArgs.transactions[i].amount < 0})
         /\ fRes[m].net = fRes[m].income - fRes[m].outgoings
         /\ fRes[m].cumulativeBalance = SumOf([j \in 1..m |-> fRes[j].net])

\* C13 witness: a month with income and outgoings, later a month without
\* transactions, later a month whose balance carries both nets.
C13_Witness ==
  /\ fPc = "cashFlow"
  /\ \E m1, m2, m3 \in 1..Len(fRes) :
       /\ m1 < m2 /\ m2 < m3
       /\ fRes[m1].income > 0 /\ fRes[m1].outgoings > 0 /\ fRes[m1].net # 0
       /\ fRes[m2].income = 0 /\ fRes[m2].outgoings = 0
       /\ fRes[m3].net # 0
       /\ fRes[m3].cumulativeBalance = fRes[m1].net + fRes[m3].net

\* the months of a list run from the month of start to the month of end,
\* each the calendar successor of the one before
IsMonthRange(months, start, end) ==
  /\ Len(months) >= 1
  /\ \A k \in 1..Len(months) :
       /\ Len(months[k]) = 7 /\ months[k][5] = "-"
       /\ MonthWritten(months[k]) \in 1..12
  /\ DatedIn(start, months[1])
  /\ DatedIn(end, months[Len(months)])
  /\ \A k \in 1..(Len(months) - 1) :
       12 * YearWritten(months[k + 1]) + MonthWritten(months[k + 1])
         = 12 * YearWritten(months[k]) + MonthWritten(months[k]) + 1

\* the categories of the expenses dated in the months of a list
CategoriesIn(transactions, months) ==
  { CategoryOrUncategorized(transactions[i]) :
      i \in {j \in 1..Len(transactions) :
               /\ transactions[j].amount < 0
               /\ \E m \in 1..Len(months) : DatedIn(transactions[j].date, months[m])} }

TrackedTotal(transactions, contributor) ==
  TotalAt(transactions,
          {i \in 1..Len(transactions) :
             /\ transactions[i].amount > 0
             /\ transactions[i].contributor # None
             /\ toLowerCase(transactions[i].contributor[1]) = toLowerCase(contributor)})

\* C15: in the report, totalDifference is the absolute difference of the two
\* largest totals of the tracked contributors and equalisationAmount is half
\* of it, however many are tracked; with fewer than two tracked both are 0.
C15_Equalisation ==
  fPc = "report" =>
    /\ fRes.equalisationAmount.num * 2 = fRes.totalDifference * fRes.equalisationAmount.den
    /\ fRes.equalisationAmount.den > 0
    /\ Len(fArgs.contributors) < 2 => fRes.totalDifference = 0
    /\ Len(fArgs.contributors) >= 2 =>
         \E i, j \in 1..Len(fArgs.contributors) :
           /\ i # j
           /\ \A k \in 1..Len(fArgs.contributors) \ {i, j} :
                /\ TrackedTotal(fArgs.transactions, fArgs.contributors[k])
                     <= TrackedTotal(fArgs.transactions, fArgs.contributors[i])
                /\ TrackedTotal(fArgs.transactions, fArgs.contributors[k])
                     <= TrackedTotal(fArgs.transactions, fArgs.contributors[j])
           /\ fRes.totalDifference =
                Abs(TrackedTotal(fArgs.transactions, fArgs.contributors[i])
                      - TrackedTotal(fArgs.transactions, fArgs.contributors[j]))

\* C15 witness: three contributors are tracked, listed with the smallest
\* total first, and the two largest totals differ.
C15_Witness ==
  /\ fPc = "report"
  /\ Len(fArgs.contributors) = 3
  /\ TrackedTotal(fArgs.transactions, fArgs.contributors[1]) > 0
  /\ TrackedTotal(fArgs.transactions, fArgs.contributors[1])
       < TrackedTotal(fArgs.transactions, fArgs.contributors[2])
  /\ TrackedTotal(fArgs.transactions, fArgs.contributors[2])
       < TrackedTotal(fArgs.transactions, fArgs.contributors[3])
  /\ fRes.totalDifference
       = TrackedTotal(fArgs.transactions, fArgs.contributors[3])
           - TrackedTotal(fArgs.transactions, fArgs.contributors[2])
  /\ fRes.equalisationAmount.num > 0

(***************************************************************************)
(* Properties of the statement parser.                                     *)
(***************************************************************************)
\* the text passes the checks made before the rows are read
FileLevelOk(content) ==
  /\ ~content.blank
  /\ content.errors = <<>>
  /\ content.data # <<>>
  /\ Range(EXPECTED_COLUMNS) \subseteq content.fields

\* the row has a value for every column
WellShaped(row) == Range(EXPECTED_COLUMNS) \subseteq DOMAIN row

\* the row's booking date is blank
BlankDate(row) == trim(row["Booking date"]) = <<>>

\* the row cannot be turned into a transaction and is not skipped either
Malformed(row) ==
  \/ ~WellShaped(row)
  \/ /\ ~BlankDate(row)
     /\ \/ ~parseNordeaDate(row["Booking date"]).ok
        \/ ~parseEuropeanDecimal(row["Amount"]).ok

\* the 1-based positions of the data rows that give a transaction
Dated(data) == {i \in 1..Len(data) : WellShaped(data[i]) /\ ~BlankDate(data[i])}

\* the k-th smallest member of a set of numbers
Nth(S, k) == CHOOSE i \in S : Cardinality({j \in S : j < i}) = k - 1

\* the transactions are those of the dated rows of the data, in row order,
\* each with the index of its row among all data rows in its id
OnePerDatedRow(transactions, data, filename) ==
  /\ Len(transactions) = Cardinality(Dated(data))
  /\ \A k \in 1..Len(transactions) :
       /\ transactions[k].id = filename \o << "-" >> \o DecimalDigits(Nth(Dated(data), k) - 1)
       /\ transactions[k].sourceFile = filename
       /\ transactions[k].date = parseNordeaDate(data[Nth(Dated(data), k)]["Booking date"]).val
       /\ transactions[k].amount = parseEuropeanDecimal(data[Nth(Dated(data), k)]["Amount"]).val
       /\ transactions[k].title = trim(data[Nth(Dated(data), k)]["Title"])
       /\ transactions[k].name = trim(data[Nth(Dated(data), k)]["Name"])
       /\ transactions[k].referenceNumber = data[Nth(Dated(data), k)]["Reference number"]
  /\ \A k, l \in 1..Len(transactions) :
       transactions[k].id = transactions[l].id => k = l

\* C16: for a text that passes the file-level checks and has no malformed
\* row, parseNordeaCSV returns one transaction per data row of non-blank
\* booking date, in row order, its id the file name, '-' and the 0-based
\* index of the row among all data rows; the ids are pairwise distinct and
\* stay the same when trailing rows of blank date are removed.
C16_OnePerDatedRow ==
  /\ ( /\ fPc = "parsed"
       /\ FileLevelOk(fArgs.content)
       /\ \A i \in 1..Len(fArgs.content.data) : ~Malformed(fArgs.content.data[i]) ) =>
       /\ fRes.ok
       /\ OnePerDatedRow(fRes.val, fArgs.content.data, fArgs.filename)
  /\ ( /\ fPc = "parsedShortened"
       /\ FileLevelOk(fArgs.content)
       /\ FileLevelOk(WithoutTrailingBlank(fArgs.content))
       /\ \A i \in 1..Len(fArgs.content.data) : ~Malformed(fArgs.content.data[i]) ) =>
       fRes.shortened = fRes.whole

\* C16 witness: a text with a blank-date row between two dated rows gives
\* two transactions, the second with index 2 in its id, and a text with a
\* trailing blank-date row was parsed again without it.
C16_Witness ==
  \/ /\ fPc = "parsed"
     /\ fRes.ok
     /\ Len(fArgs.content.data) = 3
     /\ Len(fRes.val) = 2
     /\ fRes.val[2].id = fArgs.filename \o << "-","2" >>
  \/ /\ fPc = "parsedShortened"
     /\ fRes.whole.ok
     /\ Len(fRes.whole.val) = 2
     /\ WithoutTrailingBlank(fArgs.content) # fArgs.content
     /\ fRes.shortened = fRes.whole

\* the 1-based positions of the malformed rows
MalformedRows(data) == {i \in 1..Len(data) : Malformed(data[i])}

\* the error parseNordeaCSV is to raise for a text, by the first check that
\* fails: its message and its row number
ExpectedError(content) ==
  IF content.blank THEN [message |-> "CSV file is empty", row |-> None]
  ELSE IF content.errors # <<>>
  THEN [message |-> "Parse error", row |-> content.errors[1].row]
  ELSE IF content.data = <<>>
  THEN [message |-> "CSV file contains no data rows", row |-> None]
  ELSE IF ~(Range(EXPECTED_COLUMNS) \subseteq content.fields)
  THEN [message |-> "Missing required columns", row |-> None]
  ELSE [message |-> IF WellShaped(content.data[Min(MalformedRows(content.data))])
                    THEN "Failed to parse row" ELSE "Invalid row data",
        row     |-> Some(Min(MalformedRows(content.data)))]

\* C17: parseNordeaCSV raises the error of the first failing check in the
\* order blank text, structural parse failure, no data rows, missing
\* columns, then the rows by ascending index; the error carries the file
\* name, and the row number when a row fails; it returns transactions only
\* when no check fails.
C17_FirstFailingCheck ==
  fPc = "parsed" =>
    IF FileLevelOk(fArgs.content) /\ MalformedRows(fArgs.content.data) = {}
    THEN fRes.ok
    ELSE /\ ~fRes.ok
         /\ fRes.val.filename = fArgs.filename
         /\ fRes.val.message = ExpectedError(fArgs.content).message
         /\ fRes.val.row = ExpectedError(fArgs.content).row

\* C17 witness: a text with no data row that also lacks a column is
\* rejected for its missing data rows; and a text whose second row has an
\* unreadable amount and whose third lacks a value is rejected for row 2.
C17_Witness ==
  /\ fPc = "parsed"
  /\ ~fRes.ok
  /\ \/ /\ fArgs.content.data = <<>>
        /\ fArgs.content.errors = <<>>
        /\ "Amount" \notin fArgs.content.fields
        /\ fRes.val.message = "CSV file contains no data rows"
     \/ /\ Len(fArgs.content.data) = 3
        /\ FileLevelOk(fArgs.content)
        /\ MalformedRows(fArgs.content.data) = {2, 3}
        /\ ~WellShaped(fArgs.content.data[3])
        /\ fRes.val.message = "Failed to parse row"
        /\ fRes.val.row = Some(2)

(***************************************************************************)
(* Properties of the merged list.                                          *)
(***************************************************************************)
\* the transactions of a list that bear a date, in the order of the list
OnDate(transactions, date) == Filter(transactions, LAMBDA t : t.date = date)

\* merged is pushed put in ascending order of date, the transactions of
\* one date in the order they were pushed
IsMergeByDate(merged, pushed) ==
  /\ Len(merged) = Len(pushed)
  /\ \A p \in 1..(Len(merged) - 1) : merged[p].date <= merged[p + 1].date
  /\ \A date \in {pushed[i].date : i \in 1..Len(pushed)} :
       OnDate(merged, date) = OnDate(pushed, date)

\* what parseNordeaCSV makes of each file
ParsedOf(csvFiles) ==
  Computed([i \in 1..Len(csvFiles) |->
              parseNordeaCSV(csvFiles[i].text, csvFiles[i].name)])

\* the transactions of parsed files in file order, and in row order within
\* each file
PushedOf(parsed) == Flatten(Computed([i \in 1..Len(parsed) |-> parsed[i].val]))

\* merged is what every file of the list gave, put in order of date
MergedAfterAll(merged, parsed) ==
  /\ \A i \in 1..Len(parsed) : parsed[i].ok
  /\ IsMergeByDate(merged, PushedOf(parsed))

\* the stretch taken is the one in which run r dispatches FILES_LOADED
LoadsFiles(r) ==
  /\ StretchOf(r)
  /\ "FILES_LOADED" \in Range(runs'[r].log)
  /\ r > Len(runs) \/ "FILES_LOADED" \notin Range(runs[r].log)

\* C18: the list dispatched with FILES_LOADED, and the list
\* parseMultipleCSVs returns for the same files, is built after every file
\* has been parsed and is in ascending order of date, transactions of equal
\* date in file order and then row order.
C18_MergedByDate ==
  [][\A r \in 1..MaxRuns :
       LoadsFiles(r) =>
         /\ runs'[r].i = Len(runs'[r].csvFiles) + 1
         /\ MergedAfterAll(runs'[r].allTransactions, ParsedOf(runs'[r].csvFiles))
         /\ state'.transactions = runs'[r].allTransactions
         /\ state'.rawTransactions = runs'[r].allTransactions
         /\ parseMultipleCSVs(AsInputs(runs'[r].csvFiles))
              = Ok(runs'[r].allTransactions)]_vars

\* C18 witness: two statements that each hold a transaction of 31 March and
\* one of 1 April were loaded, and the second file's first transaction
\* stands before the first file's second.
C18_Witness ==
  \E r \in 1..Len(runs) :
    /\ "FILES_LOADED" \in Range(runs[r].log)
    /\ Len(runs[r].csvFiles) = 2
    /\ Len(runs[r].allTransactions) = 4
    /\ runs[r].allTransactions[2].sourceFile = runs[r].csvFiles[2].name
    /\ runs[r].allTransactions[3].sourceFile = runs[r].csvFiles[1].name
    /\ runs[r].allTransactions[2].date < runs[r].allTransactions[3].date
    /\ state.transactions = runs[r].allTransactions

(***************************************************************************)
(* Properties of the locale parsers.                                       *)
(***************************************************************************)
\* the text is a non-empty run of decimal digits
AllDigits(s) == s # <<>> /\ \A i \in 1..Len(s) : IsDigit(s[i])

\* the three parts are written as numbers and name a day of the calendar
IsCalendarDate(parts) ==
  /\ \A i \in 1..3 : AllDigits(parts[i])
  /\ DigitsValue(parts[2]) \in 1..12
  /\ DigitsValue(parts[3]) \in 1..MonthLengths(DigitsValue(parts[1]))[DigitsValue(parts[2])]

\* date.getDate(), local time
DayOfMonth(date) ==
  1 + date - DaysBeforeYear(getFullYear(date))
           - DaysBeforeMonth(getFullYear(date), getMonth(date))

\* C19: parseNordeaDate raises an error for a text that does not split
\* into exactly three parts at '/', and for parts that do not name a real
\* calendar date; the date it returns has the year, month and day written.
C19_OnlyRealDates ==
  fPc = "parseNordeaDate" =>
    /\ Len(split(fArgs.value, "/")) # 3 => ~fRes.ok
    /\ ( /\ Len(split(fArgs.value, "/")) = 3
         /\ ~IsCalendarDate(split(fArgs.value, "/")) ) => ~fRes.ok
    /\ fRes.ok =>
         /\ getFullYear(fRes.val) = DigitsValue(split(fArgs.value, "/")[1])
         /\ getMonth(fRes.val) + 1 = DigitsValue(split(fArgs.value, "/")[2])
         /\ DayOfMonth(fRes.val) = DigitsValue(split(fArgs.value, "/")[3])

\* the text splits at '/' into exactly three parts, or is rejected
C19_ThreePartsOrError ==
  fPc = "parseNordeaDate" =>
    (Len(split(fArgs.value, "/")) # 3 => ~fRes.ok)

\* a text of two or of four parts was rejected, and a real date was read
\* as written
C19_Reached ==
  /\ fPc = "parseNordeaDate"
  /\ \/ Len(split(fArgs.value, "/")) \in {2, 4} /\ ~fRes.ok
     \/ /\ fArgs.value = << "2","0","2","4","/","0","2","/","2","9" >>
        /\ fRes.ok
        /\ getMonth(fRes.val) = 1
        /\ DayOfMonth(fRes.val) = 29

\* the text without its leading sign
AfterSign(s) == IF s # <<>> /\ s[1] \in {"-", "+"} THEN Tail(s) ELSE s

\* the text is runs of digits with single '.' between them
GroupedDigits(s) ==
  /\ s # <<>>
  /\ IsDigit(s[1]) /\ IsDigit(s[Len(s)])
  /\ \A i \in 1..Len(s) : IsDigit(s[i]) \/ s[i] = "."
  /\ \A i \in 1..(Len(s) - 1) : ~(s[i] = "." /\ s[i + 1] = ".")

\* a European decimal: an optional sign, digits with '.' between groups,
\* and at most one ',' followed by digits
IsEuropeanDecimal(s) ==
  With(AfterSign(s), LAMBDA body :
    With({i \in 1..Len(body) : body[i] = ","}, LAMBDA commas :
      IF commas = {} THEN GroupedDigits(body)
      ELSE /\ Cardinality(commas) = 1
           /\ GroupedDigits(SubSeq(body, 1, Min(commas) - 1))
           /\ AllDigits(SubSeq(body, Min(commas) + 1, Len(body)))))

\* C20: parseEuropeanDecimal raises an error for every text that is not a
\* well-formed European decimal: the empty text, and a text with a stray
\* character anywhere, also after a numeric prefix.
C20_OnlyWellFormedDecimals ==
  fPc = "parseEuropeanDecimal" =>
    (~IsEuropeanDecimal(fArgs.value) => ~fRes.ok)

(***************************************************************************)
(* Properties of the pipeline stages.                                      *)
(***************************************************************************)
\* the fields of a transaction that ingestion sets
IngestedFields ==
  { "id", "date", "amount", "title", "name", "referenceNumber", "message", "sourceFile" }

\* record out is record in but for its category, contributor and isDuplicate
SameButAdded(out, in) ==
  /\ DOMAIN out = DOMAIN in
  /\ \A f \in IngestedFields : out[f] = in[f]

\* every record of the output comes from a record of the input and differs
\* from it only in the added fields: of a removal the records left, in
\* order; of the other stages the record at the same place
StageKeeps(stage, in, out) ==
  IF stage = "removeDuplicates"
  THEN \E keep \in SUBSET (1..Len(in)) : out = KeepIndices(in, keep, 1)
  ELSE /\ Len(out) = Len(in)
       /\ \A i \in 1..Len(in) : SameButAdded(out[i], in[i])
       /\ stage = "applyCategories" =>
            \A i \in 1..Len(in) :
              (in[i].amount >= 0 \/ in[i].category # None) => out[i] = in[i]

\* C21: a call of removeDuplicates, markDuplicates, tagContributions or
\* applyCategories leaves the list it is given and its records as they
\* were, and each record it returns has the id, date, amount, title, name,
\* reference number, message and source file of the record it comes from;
\* applyCategories returns categorised records and records that are not
\* expenses as they are.
C21_StagesCopy ==
  [][ fPc = "start" =>
        /\ fArgs'.transactions = fArgs.transactions
        /\ StageKeeps(fPc', fArgs.transactions, fRes') ]_vars

\* C21 witness: applyCategories was given a list holding a categorised
\* expense, an income and an uncategorised expense, and it categorised the
\* last alone; and a removal dropped a record.
C21_Witness ==
  \/ /\ fPc = "applyCategories"
     /\ \E i, j, k \in 1..Len(fRes) :
          /\ fArgs.transactions[i].category # None
          /\ fArgs.transactions[j].amount > 0
          /\ fArgs.transactions[j].contributor # None
          /\ fArgs.transactions[k].category = None
          /\ fRes[k].category # None
          /\ fRes[i] = fArgs.transactions[i]
  \/ /\ fPc = "removeDuplicates"
     /\ Len(fRes) < Len(fArgs.transactions)

(***************************************************************************)
(* Properties of the report held by the application.                       *)
(***************************************************************************)
\* C22: whenever reportData is not null it is the report of the current
\* state.transactions, state.selectedContributors and
\* state.duplicatesRemoved.
C22_ReportNeverStale ==
  state.reportData # None =>
    state.reportData = Some(ReportOf(state.transactions, state.selectedContributors,
                                     state.duplicatesRemoved))

(***************************************************************************)
(* Properties of the review queue.                                         *)
(***************************************************************************)
\* the positions of the expenses of a list that have no category
Unreviewed(transactions) ==
  {i \in 1..Len(transactions) :
     transactions[i].amount < 0 /\ transactions[i].category = None}

\* the suggestions stand in descending order of totalAmount
DescendingTotals(suggestions) ==
  \A p \in 1..(Len(suggestions) - 1) :
    suggestions[p].totalAmount >= suggestions[p + 1].totalAmount

\* C23: the suggestions of suggestCategories account for every expense
\* without category once: their transactionCount values sum to the number
\* of such expenses, their totalAmount values to the sum of the absolute
\* amounts, and they stand in descending order of totalAmount.
C23_EveryExpenseSuggested ==
  fPc = "suggestCategories" =>
    /\ SumOf([i \in 1..Len(fRes) |-> fRes[i].transactionCount])
         = Cardinality(Unreviewed(fArgs.transactions))
    /\ SumOf([i \in 1..Len(fRes) |-> fRes[i].totalAmount])
         = 0 - AmountAt(fArgs.transactions, Unreviewed(fArgs.transactions))
    /\ DescendingTotals(fRes)

\* the same with the expenses of blank title left aside, which is what
\* suggestCategories does; the titles are grouped as written
C23_TitledExpensesSuggested ==
  fPc = "suggestCategories" =>
    With({i \in Unreviewed(fArgs.transactions) : trim(fArgs.transactions[i].title) # <<>>},
         LAMBDA titled :
      /\ SumOf([i \in 1..Len(fRes) |-> fRes[i].transactionCount]) = Cardinality(titled)
      /\ SumOf([i \in 1..Len(fRes) |-> fRes[i].totalAmount])
           = 0 - AmountAt(fArgs.transactions, titled)
      /\ DescendingTotals(fRes)
      /\ \A p \in 1..Len(fRes) :
           fRes[p].transactionCount
             = Cardinality({i \in titled : fArgs.transactions[i].title = fRes[p].title}))

(***************************************************************************)
(* Properties of the runs of processFiles.                                 *)
(***************************************************************************)
\* the runs that have started and dispatched neither FILES_LOADED nor an
\* error: they wait for the text of a CSV file
Reading == {r \in 1..Len(runs) : runs[r].pc = "csv"}

\* while a run is reading, isLoading is true
LoadingWhileReading == Reading # {} => state.isLoading

\* at most one run is reading
OneRunReading == Cardinality(Reading) <= 1

\* C25: from the start of a run of processFiles until it dispatches
\* FILES_LOADED or an error that is not null, state.isLoading is true, so
\* at most one run is in flight.
C25_LoadingUntilLoaded == LoadingWhileReading /\ OneRunReading

(***************************************************************************)
(* Properties of the wizard's step.                                        *)
(***************************************************************************)
\* the place of a step in the wizard
StepOrder(step) ==
  CASE step = "landing"      -> 1
    [] step = "dedup"        -> 2
    [] step = "contributors" -> 3
    [] step = "categorize"   -> 4
    [] step = "report"       -> 5

\* C24: the step only moves forward through landing, dedup, contributors,
\* categorize, report: dedup is entered from landing with at least one
\* duplicate group in the state and contributors directly from landing with
\* none, categorize is entered from contributors, report from categorize
\* with the report in the state, and the step returns to landing only with
\* the whole initial state.
C24_StepsForward ==
  [][ state'.step # state.step =>
        CASE state'.step = "landing"      -> state' = initialState
          [] state'.step = "dedup"        -> /\ state.step = "landing"
                                             /\ state'.duplicateGroups # <<>>
          [] state'.step = "contributors" -> \/ state.step = "dedup"
                                             \/ /\ state.step = "landing"
                                                /\ state'.duplicateGroups = <<>>
          [] state'.step = "categorize"   -> state.step = "contributors"
          [] state'.step = "report"       -> /\ state.step = "categorize"
                                             /\ state'.reportData # None ]_vars

\* the step never moves to an earlier one other than landing
C24_NeverBack ==
  [][ StepOrder(state'.step) >= StepOrder(state.step) \/ state'.step = "landing" ]_vars

(***************************************************************************)
(* Properties of the dedup step.                                           *)
(***************************************************************************)
\* C26: whenever the step is dedup, state.duplicateGroups is
\* findDuplicates of state.transactions, so every transaction that Remove
\* drops is an element of the list.
C26_GroupsOfCurrentList ==
  state.step = "dedup" =>
    /\ state.duplicateGroups = findDuplicates(state.transactions, zone)
    /\ \A t \in Range(getTransactionsToRemove(state.duplicateGroups)) :
         t \in Range(state.transactions)

\* C30: in every state whose step is past dedup, state.duplicatesRemoved
\* is the number of records of rawTransactions that are no longer in
\* transactions: length(rawTransactions) - length(transactions).
C30_RemovedIsTheDifference ==
  StepOrder(state.step) > StepOrder("dedup") =>
    state.duplicatesRemoved = Len(state.rawTransactions) - Len(state.transactions)

(***************************************************************************)
(* Properties of the categorize step.                                      *)
(***************************************************************************)
\* the categories of a list, record by record
CategoriesOf(transactions) == [i \in 1..Len(transactions) |-> transactions[i].category]

\* C27: after one or more of Assign (an exact rule for the title on
\* display) and Apply-to-All (a contains rule for a mined keyword), the
\* categories in state.transactions are those of applyCategories applied
\* once, with the final state.categoryMappings, to the list with which the
\* categorize step was entered.
C27_IncrementalIsOneShot ==
  (hist.continued # None /\ hist.assigned) =>
    CategoriesOf(state.transactions)
      = CategoriesOf(applyCategories(hist.continued[1].transactions, state.categoryMappings))

(***************************************************************************)
(* Properties of the sums of the report.                                   *)
(***************************************************************************)
\* the totals of byCategory add up to a number, in the engine's numbers and
\* in some order
AddUpTo(byCategory, number) ==
  \E order \in [1..Len(byCategory) -> 1..Len(byCategory)] :
    /\ \A i, j \in 1..Len(byCategory) : order[i] = order[j] => i = j
    /\ Accumulate(DoubleZero, [i \in 1..Len(byCategory) |-> byCategory[order[i]].total])
         = number

\* C28: in every generated report the cumulativeBalance of the last month
\* equals cashFlow.netBalance, and the totals of spending.byCategory sum to
\* cashFlow.totalOutgoings.
C28_ReportSumsAgree ==
  fPc = "doubles" =>
    /\ fRes.cashFlow.monthly[Len(fRes.cashFlow.monthly)].cumulativeBalance
         = fRes.cashFlow.netBalance
    /\ AddUpTo(fRes.spending.byCategory, fRes.cashFlow.totalOutgoings)

\* the same equalities between the sums taken in hundredths without rounding
C28_ExactSumsAgree ==
  fPc = "exact" =>
    /\ fRes.cashFlow.monthly[Len(fRes.cashFlow.monthly)].cumulativeBalance
         = fRes.cashFlow.netBalance
    /\ SumOf([i \in 1..Len(fRes.spending.byCategory) |-> fRes.spending.byCategory[i].total])
         = fRes.cashFlow.totalOutgoings

\* state.transactions is sorted ascending by date in every step
C28_SortedThroughout ==
  \A i \in 1..(Len(state.transactions) - 1) :
    state.transactions[i].date <= state.transactions[i + 1].date

\* the months of a report that handleFinish generates cover every
\* transaction of the list
C28_MonthsCover ==
  [][ (state.reportData = None /\ state'.reportData # None) =>
        \A i \in 1..Len(state'.transactions) :
          \E m \in 1..Len(state'.reportData[1].cashFlow.monthly) :
            state'.reportData[1].cashFlow.monthly[m].month
              = formatMonth(state'.transactions[i].date) ]_vars

(***************************************************************************)
(* Properties of the tracked contributors.                                 *)
(***************************************************************************)
\* the three figures of a tracked contributor in the contributions of a
\* report agree: the monthly amounts sum to the total of the summary, which
\* is the last cumulative value
FiguresAgree(contributions, name) ==
  With(Filter(contributions.monthly, LAMBDA c : c.contributor = name), LAMBDA monthly :
  With(Filter(contributions.cumulative, LAMBDA c : c.contributor = name), LAMBDA cumulative :
    \A s \in Range(contributions.contributors) :
      s.name = name =>
        /\ SumOf([i \in 1..Len(monthly) |-> monthly[i].amount]) = s.total
        /\ cumulative # <<>>
        /\ cumulative[Len(cumulative)].cumulative = s.total))

\* C29: for any list of selected names, when the transactions tagged by
\* tagContributions with the list are aggregated with the same list over
\* the months that cover them, the monthly amounts of each tracked
\* contributor sum to the total of the contributor's summary, which is also
\* the contributor's last cumulative value.
C29_FiguresAgree ==
  fPc = "tracked" =>
    \A name \in Range(fArgs.selectedNames) : FiguresAgree(fRes, name)

\* the same for the names the contributors screen selects
C29_TopFiguresAgree ==
  fPc = "trackedTop" =>
    \A name \in Range(fArgs.selectedNames) : FiguresAgree(fRes, name)

====
